---- MODULE Spec2Model ----
(***************************************************************************)
(* Referral ledger, activation and withdrawal state machines of the        *)
(* ybs-backend Express/Prisma service.                                     *)
(*                                                                         *)
(* The database tables are the state.  A request handler is a process: it  *)
(* takes one step per database round trip (every `await prisma...`), and a *)
(* `prisma.$transaction` block whose statements are blind writes commits   *)
(* as one step.  Handlers in flight are kept in the bag `inflight`, so two *)
(* identical concurrent requests are two copies of the same record.        *)
(***************************************************************************)
EXTENDS Integers, Sequences, FiniteSets, Bags, TLC

(***************************************************************************)
(* Program constants                                                       *)
(***************************************************************************)
ACTIVATION_FEE == 600
MIN_WITHDRAWAL_AMOUNT == 1000
LEVEL_1 == 300
LEVEL_2 == 100
LEVEL_3 == 50
WEEKLY_CHALLENGE_BONUS == 100
videoReward == 5

(***************************************************************************)
(* Bounds of the model                                                     *)
(***************************************************************************)
NumUsers == 5
MaxProcs == 2
MaxWithdrawals == 2
MaxCheckouts == 1
MaxDeliveries == 2
SeedClaims == 10
MaxBalance == 1100
MaxContacts == 2

Users == 1..NumUsers
NullUser == 0
WithdrawalIds == 1..MaxWithdrawals
CheckoutIds == 1..MaxCheckouts
Amounts == {0, 500, 1000}

VARIABLES
    users,        \* table users: id -> row
    referrals,    \* table referrals: set of rows, unique per (referrerId, referredId)
    journal,      \* table transactions: bag of rows
    withdrawals,  \* table withdrawal_requests: sequence of rows, id = index
    tasks,        \* tables daily_tasks / weekly_challenges of the current day and week
    mpesa,        \* payment provider: checkout id -> [payer, delivered]
    inflight,     \* bag of handlers between two database round trips
    resp          \* the last response sent

vars == <<users, referrals, journal, withdrawals, tasks, mpesa, inflight, resp>>

(***************************************************************************)
(* Rows                                                                    *)
(***************************************************************************)
\* A row of the users table with the column defaults of the schema.
\* A phone number as a string: the subscriber number n written in the local
\* form ("0" + n) or in the international form ("254" + n).  An email address
\* as a string: the address n written in lower case or with capitals.
Phone(n, form) == [n |-> n, form |-> form]
Email(n, form) == [n |-> n, form |-> form]
NoContact == [n |-> 0, form |-> ""]

NewUser(ref) ==
    [exists |-> TRUE, referredBy |-> ref, accountStatus |-> "UNVERIFIED",
     totalReferrals |-> 0, pendingEarnings |-> 0, availableBalance |-> 0,
     totalEarned |-> 0, totalWithdrawn |-> 0,
     phoneNumber |-> NoContact, email |-> NoContact]

NoUser == [NewUser(NullUser) EXCEPT !.exists = FALSE]

\* A row of the transactions table.  wr, about and chk are the metadata keys
\* withdrawalRequestId, referredUserId and checkoutRequestId (0 when absent).
Entry(u, type, amount, status, wr, about, chk) ==
    [userId |-> u, type |-> type, amount |-> amount, status |-> status,
     wr |-> wr, about |-> about, chk |-> chk]

\* The balance columns of a users row.
Balances(row) ==
    [pendingEarnings |-> row.pendingEarnings, availableBalance |-> row.availableBalance,
     totalEarned |-> row.totalEarned, totalWithdrawn |-> row.totalWithdrawn]

\* A row of the withdrawal_requests table.
NewWithdrawal(u, amount) ==
    [userId |-> u, amount |-> amount, status |-> "PENDING"]

\* A handler in flight.
Proc(op, pc, u, amount, wd, status, todo) ==
    [op |-> op, pc |-> pc, user |-> u, amount |-> amount, wd |-> wd,
     status |-> status, todo |-> todo]

Response(op, code, err) == [op |-> op, code |-> code, err |-> err]

(***************************************************************************)
(* Bag helpers                                                             *)
(***************************************************************************)
Put(B, r) == B (+) SetToBag({r})
Take(B, r) == B (-) SetToBag({r})

RECURSIVE SumCopies(_, _)
SumCopies(B, S) ==
    IF S = {} THEN 0
    ELSE LET r == CHOOSE x \in S : TRUE IN B[r] + SumCopies(B, S \ {r})

RECURSIVE SumAmounts(_, _)
SumAmounts(B, S) ==
    IF S = {} THEN 0
    ELSE LET r == CHOOSE x \in S : TRUE IN B[r] * r.amount + SumAmounts(B, S \ {r})

\* Number of journal rows satisfying a predicate, and the sum of their amounts.
\* S is a set of rows of J.
CountEntries(J, S) == SumCopies(J, S)

AmountOfEntries(J, S) == SumAmounts(J, S)

\* transaction.updateMany({where: {userId, type: WITHDRAW_TO_MPESA,
\*   metadata.withdrawalRequestId = w}, data: {status}})
SetWithdrawalEntries(J, u, w, st) ==
    LET f(r) == IF r.userId = u /\ r.type = "WITHDRAW_TO_MPESA" /\ r.wr = w
                THEN [r EXCEPT !.status = st] ELSE r
        D == {f(r) : r \in DOMAIN J}
    IN [d \in D |-> SumCopies(J, {r \in DOMAIN J : f(r) = d})]

(***************************************************************************)
(* Middleware                                                              *)
(***************************************************************************)
\* protect: loads req.user; 401 when the row is gone, 403 when suspended.
protect(u) ==
    IF ~users[u].exists THEN Response("protect", 401, "USER_NOT_FOUND")
    ELSE IF users[u].accountStatus = "SUSPENDED" THEN Response("protect", 403, "SUSPENDED")
    ELSE Response("protect", 200, "")

\* requireActivation: rejects an UNVERIFIED req.user.
requireActivation(u) ==
    IF users[u].accountStatus = "UNVERIFIED"
    THEN Response("requireActivation", 403, "ACCOUNT_NOT_ACTIVATED")
    ELSE Response("requireActivation", 200, "")

\* validateWithdrawalRequest: the amount must be positive and at least the
\* minimum; the error names the rule that failed.
validateWithdrawalRequest(amount) ==
    IF amount <= 0 THEN Response("validate", 400, "AMOUNT_NOT_POSITIVE")
    ELSE IF amount < MIN_WITHDRAWAL_AMOUNT THEN Response("validate", 400, "AMOUNT_BELOW_MINIMUM")
    ELSE Response("validate", 200, "")

\* validateWithdrawalResolution: status COMPLETED needs mpesaTransactionCode,
\* status REJECTED needs rejectionReason; detail tells whether the field of
\* the status is in the body.
validateWithdrawalResolution(status, detail) ==
    IF status \notin {"COMPLETED", "REJECTED"} THEN Response("validate", 400, "STATUS_INVALID")
    ELSE IF status = "COMPLETED" /\ ~detail THEN Response("validate", 400, "CODE_REQUIRED")
    ELSE IF status = "REJECTED" /\ ~detail THEN Response("validate", 400, "REASON_REQUIRED")
    ELSE Response("validate", 200, "")

\* New handlers are admitted while the model is inside its bounds.
CanStart ==
    /\ BagCardinality(inflight) < MaxProcs
    /\ \A u \in Users : /\ users[u].availableBalance <= MaxBalance
                        /\ users[u].availableBalance >= -MaxBalance
                        /\ users[u].totalWithdrawn <= MaxBalance

Requests(B) == SumCopies(B, {p \in DOMAIN B : p.op = "request"})

Finish(p, r) ==
    /\ inflight' = Take(inflight, p)
    /\ resp' = r

Continue(p, q) ==
    /\ inflight' = Put(Take(inflight, p), q)
    /\ UNCHANGED resp

Start(q) ==
    /\ inflight' = Put(inflight, q)
    /\ UNCHANGED resp

Reject(r) ==
    /\ resp' = r
    /\ UNCHANGED inflight

(***************************************************************************)
(* Withdrawal state machine                                                *)
(***************************************************************************)
\* findFirst({userId, status in [PENDING, PROCESSING]})
Outstanding(W, u) ==
    {i \in DOMAIN W : W[i].userId = u /\ W[i].status \in {"PENDING", "PROCESSING"}}

\* The transaction of requestWithdrawal.
RequestCommit(db, u, amount) ==
    [users |-> [db.users EXCEPT ![u].availableBalance = @ - amount],
     withdrawals |-> Append(db.withdrawals, NewWithdrawal(u, amount)),
     journal |-> Put(db.journal,
                     Entry(u, "WITHDRAW_TO_MPESA", amount, "PENDING",
                           Len(db.withdrawals) + 1, 0, 0))]

\* A cancel that marks the request and the journal row but refunds nothing.
CancelCommitNoRefund(db, u, w) ==
    [users |-> db.users,
     withdrawals |-> [db.withdrawals EXCEPT ![w].status = "REJECTED"],
     journal |-> SetWithdrawalEntries(db.journal, u, w, "CANCELLED")]

\* The transaction of cancelWithdrawal.
CancelCommit(db, u, w) ==
    [users |-> [db.users EXCEPT ![u].availableBalance = @ + db.withdrawals[w].amount],
     withdrawals |-> [db.withdrawals EXCEPT ![w].status = "REJECTED"],
     journal |-> SetWithdrawalEntries(db.journal, u, w, "CANCELLED")]

\* The transaction of retryWithdrawal.
RetryCommit(db, u, w) ==
    [users |-> [db.users EXCEPT ![u].availableBalance = @ - db.withdrawals[w].amount],
     withdrawals |-> [db.withdrawals EXCEPT ![w].status = "PENDING"],
     journal |-> SetWithdrawalEntries(db.journal, u, w, "PENDING")]

\* A resolution that marks the request and the journal row COMPLETED without
\* counting the amount in totalWithdrawn.
ResolveCommitNoPayout(db, w, status) ==
    LET u == db.withdrawals[w].userId
        amount == db.withdrawals[w].amount
    IN [users |-> IF status = "COMPLETED" THEN db.users
                  ELSE [db.users EXCEPT ![u].availableBalance = @ + amount],
        withdrawals |-> [db.withdrawals EXCEPT ![w].status = status],
        journal |-> SetWithdrawalEntries(db.journal, u, w,
                        IF status = "COMPLETED" THEN "CONFIRMED" ELSE "FAILED")]

\* A resolution that marks the request and the journal row of a rejection
\* without refunding the amount.
ResolveCommitNoRefund(db, w, status) ==
    LET u == db.withdrawals[w].userId
        amount == db.withdrawals[w].amount
    IN [users |-> IF status = "COMPLETED"
                  THEN [db.users EXCEPT ![u].totalWithdrawn = @ + amount]
                  ELSE db.users,
        withdrawals |-> [db.withdrawals EXCEPT ![w].status = status],
        journal |-> SetWithdrawalEntries(db.journal, u, w,
                        IF status = "COMPLETED" THEN "CONFIRMED" ELSE "FAILED")]

\* A resolution that marks the request and moves the amount but leaves the
\* journal row as it was.
ResolveCommitKeepsEntry(db, w, status) ==
    LET u == db.withdrawals[w].userId
        amount == db.withdrawals[w].amount
    IN [users |-> IF status = "COMPLETED"
                  THEN [db.users EXCEPT ![u].totalWithdrawn = @ + amount]
                  ELSE [db.users EXCEPT ![u].availableBalance = @ + amount],
        withdrawals |-> [db.withdrawals EXCEPT ![w].status = status],
        journal |-> db.journal]

\* The transaction of processWithdrawal.
ResolveCommit(db, w, status) ==
    LET u == db.withdrawals[w].userId
        amount == db.withdrawals[w].amount
    IN [users |-> IF status = "COMPLETED"
                  THEN [db.users EXCEPT ![u].totalWithdrawn = @ + amount]
                  ELSE [db.users EXCEPT ![u].availableBalance = @ + amount],
        withdrawals |-> [db.withdrawals EXCEPT ![w].status = status],
        journal |-> SetWithdrawalEntries(db.journal, u, w,
                        IF status = "COMPLETED" THEN "CONFIRMED" ELSE "FAILED")]

DB == [users |-> users, withdrawals |-> withdrawals, journal |-> journal]

Commit(db) ==
    /\ users' = db.users
    /\ withdrawals' = db.withdrawals
    /\ journal' = db.journal

\* The checks of requestWithdrawal without those of the minimum amount.
requestChecksNoMinimum(u, amount) ==
    IF protect(u).code # 200 THEN protect(u)
    ELSE IF requireActivation(u).code # 200 THEN requireActivation(u)
    ELSE IF users[u].accountStatus # "ACTIVE"
         THEN Response("request", 403, "ACCOUNT_NOT_ACTIVATED")
    ELSE IF users[u].availableBalance < amount
         THEN Response("request", 400, "INSUFFICIENT_BALANCE")
    ELSE Response("request", 200, "")

\* requestWithdrawal up to its first query: the middleware and the checks on
\* req.user (account status, minimum amount, sufficient balance).
requestChecks(u, amount) ==
    IF protect(u).code # 200 THEN protect(u)
    ELSE IF requireActivation(u).code # 200 THEN requireActivation(u)
    ELSE IF validateWithdrawalRequest(amount).code # 200
         THEN validateWithdrawalRequest(amount)
    ELSE IF users[u].accountStatus # "ACTIVE"
         THEN Response("request", 403, "ACCOUNT_NOT_ACTIVATED")
    ELSE IF amount < MIN_WITHDRAWAL_AMOUNT
         THEN Response("request", 400, "MIN_WITHDRAWAL")
    ELSE IF users[u].availableBalance < amount
         THEN Response("request", 400, "INSUFFICIENT_BALANCE")
    ELSE Response("request", 200, "")

RequestBegin(u, amount) ==
    /\ CanStart
    /\ Len(withdrawals) + Requests(inflight) < MaxWithdrawals
    /\ UNCHANGED <<users, referrals, journal, withdrawals, tasks, mpesa>>
    /\ IF requestChecks(u, amount).code # 200
       THEN Reject(requestChecks(u, amount))
       ELSE Start(Proc("request", "find", u, amount, 0, "", {}))

\* requestWithdrawal: the query for an outstanding request.
RequestFind(p) ==
    /\ p.op = "request" /\ p.pc = "find"
    /\ UNCHANGED <<users, referrals, journal, withdrawals, tasks, mpesa>>
    /\ IF Outstanding(withdrawals, p.user) # {}
       THEN Finish(p, Response("request", 400, "ALREADY_PENDING"))
       ELSE Continue(p, [p EXCEPT !.pc = "tx"])

\* requestWithdrawal: the transaction and the response.
RequestTx(p) ==
    /\ p.op = "request" /\ p.pc = "tx"
    /\ UNCHANGED <<referrals, tasks, mpesa>>
    /\ IF ~users[p.user].exists
       THEN /\ UNCHANGED <<users, withdrawals, journal>>
            /\ Finish(p, Response("request", 500, "FOREIGN_KEY"))
       ELSE /\ Commit(RequestCommit(DB, p.user, p.amount))
            /\ Finish(p, Response("request", 200, ""))

\* cancelWithdrawal up to its first query.
CancelBegin(u, w) ==
    /\ CanStart
    /\ UNCHANGED <<users, referrals, journal, withdrawals, tasks, mpesa>>
    /\ IF protect(u).code # 200 THEN Reject(protect(u))
       ELSE IF requireActivation(u).code # 200 THEN Reject(requireActivation(u))
       ELSE Start(Proc("cancel", "find", u, 0, w, "", {}))

\* A lookup of the request by its id alone, whoever owns it.
cancelChecksAnyOwner(W, u, w) ==
    IF w \notin DOMAIN W
    THEN Response("cancel", 404, "NOT_FOUND")
    ELSE IF W[w].status # "PENDING"
    THEN Response("cancel", 400, "NOT_PENDING")
    ELSE Response("cancel", 200, "")

\* cancelWithdrawal: findFirst({id, userId}) and the status check.
cancelChecks(W, u, w) ==
    IF w \notin DOMAIN W \/ W[w].userId # u
    THEN Response("cancel", 404, "NOT_FOUND")
    ELSE IF W[w].status # "PENDING"
    THEN Response("cancel", 400, "NOT_PENDING")
    ELSE Response("cancel", 200, "")

CancelFind(p) ==
    /\ p.op = "cancel" /\ p.pc = "find"
    /\ UNCHANGED <<users, referrals, journal, withdrawals, tasks, mpesa>>
    /\ IF cancelChecks(withdrawals, p.user, p.wd).code # 200
       THEN Finish(p, cancelChecks(withdrawals, p.user, p.wd))
       ELSE Continue(p, [p EXCEPT !.pc = "tx"])

\* cancelWithdrawal: the transaction and the response.
CancelTx(p) ==
    /\ p.op = "cancel" /\ p.pc = "tx"
    /\ UNCHANGED <<referrals, tasks, mpesa>>
    /\ Commit(CancelCommit(DB, p.user, p.wd))
    /\ Finish(p, Response("cancel", 200, ""))

\* retryWithdrawal up to its first query.
RetryBegin(u, w) ==
    /\ CanStart
    /\ UNCHANGED <<users, referrals, journal, withdrawals, tasks, mpesa>>
    /\ IF protect(u).code # 200 THEN Reject(protect(u))
       ELSE IF requireActivation(u).code # 200 THEN Reject(requireActivation(u))
       ELSE Start(Proc("retry", "find", u, 0, w, "", {}))

\* retryWithdrawal: findFirst({id, userId}) and the status check.
RetryFind(p) ==
    /\ p.op = "retry" /\ p.pc = "find"
    /\ UNCHANGED <<users, referrals, journal, withdrawals, tasks, mpesa>>
    /\ IF p.wd \notin DOMAIN withdrawals \/ withdrawals[p.wd].userId # p.user
       THEN Finish(p, Response("retry", 404, "NOT_FOUND"))
       ELSE IF withdrawals[p.wd].status # "REJECTED"
       THEN Finish(p, Response("retry", 400, "NOT_REJECTED"))
       ELSE Continue(p, [p EXCEPT !.pc = "balance"])

\* retryWithdrawal: the re-read of the current availableBalance.
RetryBalance(p) ==
    /\ p.op = "retry" /\ p.pc = "balance"
    /\ UNCHANGED <<users, referrals, journal, withdrawals, tasks, mpesa>>
    /\ IF users[p.user].availableBalance < withdrawals[p.wd].amount
       THEN Finish(p, Response("retry", 400, "INSUFFICIENT_BALANCE"))
       ELSE Continue(p, [p EXCEPT !.pc = "tx"])

\* retryWithdrawal: the transaction and the response.
RetryTx(p) ==
    /\ p.op = "retry" /\ p.pc = "tx"
    /\ UNCHANGED <<referrals, tasks, mpesa>>
    /\ Commit(RetryCommit(DB, p.user, p.wd))
    /\ Finish(p, Response("retry", 200, ""))

\* processWithdrawal (admin): validation, findUnique and the status check.
ResolveFind(w, status, detail) ==
    /\ CanStart
    /\ UNCHANGED <<users, referrals, journal, withdrawals, tasks, mpesa>>
    /\ IF validateWithdrawalResolution(status, detail).code # 200
       THEN Reject(validateWithdrawalResolution(status, detail))
       ELSE IF w \notin DOMAIN withdrawals
       THEN Reject(Response("resolve", 404, "NOT_FOUND"))
       ELSE IF withdrawals[w].status # "PENDING"
       THEN Reject(Response("resolve", 400, "NOT_PENDING"))
       ELSE Start(Proc("resolve", "tx", NullUser, 0, w, status, {}))

\* processWithdrawal (admin): the transaction and the response.
ResolveTx(p) ==
    /\ p.op = "resolve" /\ p.pc = "tx"
    /\ UNCHANGED <<referrals, tasks, mpesa>>
    /\ Commit(ResolveCommit(DB, p.wd, p.status))
    /\ Finish(p, Response("resolve", 200, ""))

(***************************************************************************)
(* Registration                                                            *)
(***************************************************************************)
\* A lookup that answers with the row of the code whether it is stored or not.
findByReferralCodeUnchecked(U, code) ==
    IF code \in Users THEN code ELSE NullUser

\* prisma.user.findUnique({where: {referralCode}}): a user's referral code is
\* its id; NullUser when no row has the code.
findByReferralCode(U, code) ==
    IF code \in Users /\ U[code].exists THEN code ELSE NullUser

REFERRAL_BONUS(level) ==
    IF level = 1 THEN LEVEL_1 ELSE IF level = 2 THEN LEVEL_2 ELSE LEVEL_3

\* A walk that follows referredBy once more than the transaction does.
AncestorsFourLevels(U, referrer) ==
    LET up(u) == IF u # NullUser /\ U[u].referredBy # NullUser
                 THEN findByReferralCode(U, U[u].referredBy) ELSE NullUser
        r2 == up(referrer)
        r3 == up(r2)
        r4 == up(r3)
    IN IF r2 = NullUser THEN <<referrer>>
       ELSE IF r3 = NullUser THEN <<referrer, r2>>
       ELSE IF r4 = NullUser THEN <<referrer, r2, r3>>
       ELSE <<referrer, r2, r3, r4>>

\* A walk that follows referredBy of the referrer again instead of that of the
\* level 2 ancestor: the level 2 ancestor is resolved a second time.
AncestorsRepeated(U, referrer) ==
    LET r2 == IF U[referrer].referredBy # NullUser
              THEN findByReferralCode(U, U[referrer].referredBy) ELSE NullUser
    IN IF r2 = NullUser THEN <<referrer>> ELSE <<referrer, r2, r2>>

\* The ancestors the registration transaction pays, nearest first: the referrer
\* found before the transaction, then the users found by following referredBy
\* twice more.
Ancestors(U, referrer) ==
    LET r2 == IF U[referrer].referredBy # NullUser
              THEN findByReferralCode(U, U[referrer].referredBy) ELSE NullUser
        r3 == IF r2 # NullUser /\ U[r2].referredBy # NullUser
              THEN findByReferralCode(U, U[r2].referredBy) ELSE NullUser
    IN IF r2 = NullUser THEN <<referrer>>
       ELSE IF r3 = NullUser THEN <<referrer, r2>>
       ELSE <<referrer, r2, r3>>

Referral(referrer, referred, level) ==
    [referrerId |-> referrer, referredId |-> referred, level |-> level,
     earningsStatus |-> "PENDING", earningsAmount |-> REFERRAL_BONUS(level)]

\* A registration that pays the direct referrer only.
RegisterCommitDirectOnly(U, R, new, code, referrer) ==
    [users |-> [u \in Users |->
                  IF u = new THEN NewUser(code)
                  ELSE IF u # referrer THEN U[u]
                  ELSE [U[u] EXCEPT !.totalReferrals = @ + 1,
                                    !.pendingEarnings = @ + REFERRAL_BONUS(1)]],
     referrals |-> R \cup (IF referrer = NullUser THEN {}
                           ELSE {Referral(referrer, new, 1)})]

\* The transaction of register: the new row, one referral row per ancestor and
\* the increments of each ancestor.
RegisterCommit(U, R, new, code, referrer) ==
    LET anc == IF referrer = NullUser THEN <<>> ELSE Ancestors(U, referrer)
        paid(u) == {l \in DOMAIN anc : anc[l] = u}
    IN [users |-> [u \in Users |->
                     IF u = new THEN NewUser(code)
                     ELSE IF paid(u) = {} THEN U[u]
                     ELSE LET l == CHOOSE l \in paid(u) : TRUE
                          IN [U[u] EXCEPT !.totalReferrals = @ + 1,
                                          !.pendingEarnings = @ + REFERRAL_BONUS(l)]],
        referrals |-> R \cup {Referral(anc[l], new, l) : l \in DOMAIN anc}]

\* formatPhoneNumber: the local form becomes the international form.
formatPhoneNumber(phone) ==
    IF phone.form = "0" THEN Phone(phone.n, "254") ELSE phone

\* email.trim().toLowerCase()
formatEmail(email) == Email(email.n, "lower")

\* prisma.user.findUnique({where: {phoneNumber}}) and ({where: {email}}): the
\* stored string is compared as it is.
findByPhone(U, phone) == {u \in Users : U[u].exists /\ U[u].phoneNumber = phone}
findByEmail(U, email) == {u \in Users : U[u].exists /\ U[u].email = email}

\* The row that stands for a user removed by user.delete: its id and its
\* referral code are not given to another user.
DeletedUser == [NoUser EXCEPT !.accountStatus = "DELETED"]

\* The id has never been given to a user.
Unused(row) == ~row.exists /\ row.accountStatus # "DELETED"

\* @default(cuid()): a new row takes the first id never used.
FreeId(U) == CHOOSE u \in Users : Unused(U[u]) /\ \A v \in 1..(u - 1) : ~Unused(U[v])

\* A register handler in flight: the formatted phone and email and the code.
RegisterProc(pc, phone, email, code) ==
    [op |-> "register", pc |-> pc, user |-> NullUser, amount |-> 0, wd |-> 0,
     status |-> "", todo |-> code, phoneNumber |-> phone, email |-> email]

\* register up to the lookup of the referral code: the phone number and the
\* email address must not be stored yet.
RegisterBegin(phone, email, code) ==
    /\ CanStart
    /\ UNCHANGED <<users, referrals, journal, withdrawals, tasks, mpesa>>
    /\ IF findByPhone(users, formatPhoneNumber(phone)) # {}
       THEN Reject(Response("register", 400, "PHONE_EXISTS"))
       ELSE IF findByEmail(users, formatEmail(email)) # {}
       THEN Reject(Response("register", 400, "EMAIL_EXISTS"))
       ELSE Start(RegisterProc(IF code = NullUser THEN "tx" ELSE "find",
                               formatPhoneNumber(phone), formatEmail(email), code))

\* register: the lookup of the referral code and the self-referral check.
RegisterFind(p) ==
    /\ p.op = "register" /\ p.pc = "find"
    /\ UNCHANGED <<users, referrals, journal, withdrawals, tasks, mpesa>>
    /\ LET referrer == findByReferralCode(users, p.todo)
       IN IF referrer = NullUser
          THEN Finish(p, Response("register", 400, "REFERRAL_CODE_NOT_FOUND"))
          ELSE IF \/ users[referrer].phoneNumber = p.phoneNumber
                  \/ users[referrer].email = p.email
          THEN Finish(p, Response("register", 400, "SELF_REFERRAL"))
          ELSE Continue(p, [p EXCEPT !.pc = "tx"])

\* The writes of the registration transaction in their order: the new row,
\* then for each ancestor its referral row and its increments.
Writes(U, referrer) == IF referrer = NullUser THEN 1 ELSE 1 + 2 * Len(Ancestors(U, referrer))

\* The rows as the transaction sees them after its first k writes.
RegisterPrefix(U, R, new, row, referrer, k) ==
    LET anc == IF referrer = NullUser THEN <<>> ELSE Ancestors(U, referrer)
        rows(l) == 2 * l <= k          \* the referral row of level l is written
        incs(l) == 2 * l + 1 <= k      \* the increments of level l are written
    IN [users |-> [u \in Users |->
                     IF u = new THEN (IF k >= 1 THEN row ELSE U[u])
                     ELSE IF \E l \in DOMAIN anc : anc[l] = u /\ incs(l)
                     THEN LET l == CHOOSE l \in DOMAIN anc : anc[l] = u /\ incs(l)
                          IN [U[u] EXCEPT !.totalReferrals = @ + 1,
                                          !.pendingEarnings = @ + REFERRAL_BONUS(l)]
                     ELSE U[u]],
        referrals |-> R \cup {Referral(anc[l], new, l) : l \in {l \in DOMAIN anc : rows(l)}}]

\* The writes of the longest registration transaction: the new row and three
\* referral rows with their increments.
MaxWrites == 7

\* A transaction that keeps what it wrote before the error.
RollbackKeepsWrites(before, written) == written

\* prisma.$transaction: an error thrown inside the callback rolls back every
\* write of the transaction.
Rollback(before, written) == before

\* register: the transaction and the response.  The new row takes the first
\* free id.  user.create fails on a stored phone or email (unique columns)
\* and on a referral code whose row is gone (foreign key); fault is the
\* number of writes done when the database fails for another reason (no
\* such failure when fault is MaxWrites or the transaction has no more than
\* fault writes).
RegisterTx(p, fault) ==
    /\ p.op = "register" /\ p.pc = "tx"
    /\ \E new \in Users : Unused(users[new])
    /\ UNCHANGED <<journal, withdrawals, tasks, mpesa>>
    /\ LET new == FreeId(users)
           row == [NewUser(p.todo) EXCEPT !.phoneNumber = p.phoneNumber, !.email = p.email]
           before == [users |-> users, referrals |-> referrals]
           failed(k, r) ==
               /\ users' = Rollback(before, RegisterPrefix(users, referrals, new, row, p.todo, k)).users
               /\ referrals' = Rollback(before, RegisterPrefix(users, referrals, new, row, p.todo, k)).referrals
               /\ Finish(p, r)
       IN IF findByPhone(users, p.phoneNumber) # {} \/ findByEmail(users, p.email) # {}
          THEN failed(0, Response("register", 400, "UNIQUE"))
          ELSE IF p.todo # NullUser /\ ~users[p.todo].exists
          THEN failed(0, Response("register", 400, "FOREIGN_KEY"))
          ELSE IF fault < MaxWrites /\ fault < Writes(users, p.todo)
          THEN failed(fault, Response("register", 500, "DATABASE"))
          ELSE /\ users' = [RegisterCommit(users, referrals, new, p.todo, p.todo).users
                               EXCEPT ![new] = row]
               /\ referrals' = RegisterCommit(users, referrals, new, p.todo, p.todo).referrals
               /\ Finish(p, Response("register", 201, ""))

\* POST /users (adminController.createUser): the phone number and the email
\* address are looked up and stored as they were sent, without formatting.
AdminCreateUser(phone, email, status) ==
    /\ \E new \in Users : Unused(users[new])
    /\ UNCHANGED <<referrals, journal, withdrawals, tasks, mpesa, inflight>>
    /\ LET new == FreeId(users)
       IN IF findByPhone(users, phone) # {}
          THEN /\ resp' = Response("createUser", 400, "PHONE_EXISTS") /\ UNCHANGED users
          ELSE IF findByEmail(users, email) # {}
          THEN /\ resp' = Response("createUser", 400, "EMAIL_EXISTS") /\ UNCHANGED users
          ELSE /\ users' = [users EXCEPT ![new] =
                               [NewUser(NullUser) EXCEPT !.phoneNumber = phone, !.email = email,
                                                         !.accountStatus = status]]
               /\ resp' = Response("createUser", 201, "")

(***************************************************************************)
(* Activation by POST /activate (userController.activateAccount)           *)
(***************************************************************************)
\* transaction.create: the row is stored when its required owner column holds
\* the id of an existing user.
InsertEntry(J, U, r) ==
    IF r.userId \in Users /\ U[r.userId].exists
    THEN [ok |-> TRUE, journal |-> Put(J, r)]
    ELSE [ok |-> FALSE, journal |-> J]

\* referral.findMany({where: {referredId, earningsStatus: PENDING}})
PendingReferrals(R, u) ==
    {r \in R : r.referredId = u /\ r.earningsStatus = "PENDING"}

BonusType(level) ==
    IF level = 1 THEN "LEVEL_1_REFERRAL_BONUS"
    ELSE IF level = 2 THEN "LEVEL_2_REFERRAL_BONUS" ELSE "LEVEL_3_REFERRAL_BONUS"

\* A release that credits the referrer and leaves the amount in pendingEarnings.
ReleaseCommitKeepsPending(db, r) ==
    [users |-> [db.users EXCEPT ![r.referrerId].availableBalance = @ + r.earningsAmount,
                                ![r.referrerId].totalEarned = @ + r.earningsAmount],
     referrals |-> {IF x.referrerId = r.referrerId /\ x.referredId = r.referredId
                    THEN [x EXCEPT !.earningsStatus = "AVAILABLE"] ELSE x : x \in db.referrals},
     journal |-> Put(db.journal,
                     Entry(r.referrerId, BonusType(r.level), r.earningsAmount,
                           "CONFIRMED", 0, r.referredId, 0))]

\* The release of one referral row read earlier: the row with its id becomes
\* AVAILABLE, the referrer gets a CONFIRMED bonus row and the amount moves from
\* pendingEarnings to availableBalance and totalEarned.
ReleaseCommit(db, r) ==
    [users |-> [db.users EXCEPT ![r.referrerId].pendingEarnings = @ - r.earningsAmount,
                                ![r.referrerId].availableBalance = @ + r.earningsAmount,
                                ![r.referrerId].totalEarned = @ + r.earningsAmount],
     referrals |-> {IF x.referrerId = r.referrerId /\ x.referredId = r.referredId
                    THEN [x EXCEPT !.earningsStatus = "AVAILABLE"] ELSE x : x \in db.referrals},
     journal |-> Put(db.journal,
                     Entry(r.referrerId, BonusType(r.level), r.earningsAmount,
                           "CONFIRMED", 0, r.referredId, 0))]

RECURSIVE ReleaseAll(_, _)
ReleaseAll(db, S) ==
    IF S = {} THEN db
    ELSE LET r == CHOOSE x \in S : TRUE IN ReleaseAll(ReleaseCommit(db, r), S \ {r})

ActivationEntry(u, status, chk) ==
    Entry(u, "ACCOUNT_ACTIVATION", ACTIVATION_FEE, status, 0, 0, chk)

\* activateAccount up to its first query: the check on req.user.
ActivateBegin(u) ==
    /\ CanStart
    /\ UNCHANGED <<users, referrals, journal, withdrawals, tasks, mpesa>>
    /\ IF protect(u).code # 200 THEN Reject(protect(u))
       ELSE IF users[u].accountStatus = "ACTIVE"
       THEN Reject(Response("activate", 400, "ALREADY_ACTIVATED"))
       ELSE Start(Proc("activate", "create", u, 0, 0, "", {}))

\* activateAccount: transaction.create of the PENDING activation row.
ActivateCreate(p) ==
    /\ p.op = "activate" /\ p.pc = "create"
    /\ UNCHANGED <<users, referrals, withdrawals, tasks, mpesa>>
    /\ LET ins == InsertEntry(journal, users, ActivationEntry(p.user, "PENDING", 0))
       IN /\ journal' = ins.journal
          /\ IF ins.ok THEN Continue(p, [p EXCEPT !.pc = "user"])
             ELSE Finish(p, Response("activate", 500, "FOREIGN_KEY"))

\* activateAccount: user.update({accountStatus: ACTIVE}).
ActivateUser(p) ==
    /\ p.op = "activate" /\ p.pc = "user"
    /\ UNCHANGED <<referrals, journal, withdrawals, tasks, mpesa>>
    /\ IF users[p.user].exists
       THEN /\ users' = [users EXCEPT ![p.user].accountStatus = "ACTIVE"]
            /\ Continue(p, [p EXCEPT !.pc = "confirm"])
       ELSE /\ UNCHANGED users
            /\ Finish(p, Response("activate", 500, "NOT_FOUND"))

\* activateAccount: transaction.update of the row created, to CONFIRMED.
ActivateConfirm(p) ==
    /\ p.op = "activate" /\ p.pc = "confirm"
    /\ UNCHANGED <<users, referrals, withdrawals, tasks, mpesa>>
    /\ IF BagIn(ActivationEntry(p.user, "PENDING", 0), journal)
       THEN /\ journal' = Put(Take(journal, ActivationEntry(p.user, "PENDING", 0)),
                              ActivationEntry(p.user, "CONFIRMED", 0))
            /\ Continue(p, [p EXCEPT !.pc = "find"])
       ELSE /\ UNCHANGED journal
            /\ Finish(p, Response("activate", 500, "NOT_FOUND"))

\* processPendingReferralBonuses (userController): the findMany.
ActivateFind(p) ==
    /\ p.op = "activate" /\ p.pc = "find"
    /\ UNCHANGED <<users, referrals, journal, withdrawals, tasks, mpesa>>
    /\ IF PendingReferrals(referrals, p.user) = {}
       THEN Finish(p, Response("activate", 200, ""))
       ELSE Continue(p, [p EXCEPT !.pc = "release",
                                  !.todo = PendingReferrals(referrals, p.user)])

\* processPendingReferralBonuses (userController): one transaction of the loop
\* over the rows read by the findMany.  When the transaction fails (fault) it
\* is rolled back and the error leaves the loop and the handler.
ActivateRelease(p, fault) ==
    /\ p.op = "activate" /\ p.pc = "release"
    /\ UNCHANGED <<withdrawals, tasks, mpesa>>
    /\ \E r \in p.todo :
          LET before == [users |-> users, referrals |-> referrals, journal |-> journal]
              db == IF fault THEN Rollback(before, ReleaseCommit(before, r))
                    ELSE ReleaseCommit(before, r)
          IN /\ users' = db.users
             /\ referrals' = db.referrals
             /\ journal' = db.journal
             /\ IF fault THEN Finish(p, Response("activate", 500, "DATABASE"))
                ELSE IF p.todo = {r} THEN Finish(p, Response("activate", 200, ""))
                ELSE Continue(p, [p EXCEPT !.todo = @ \ {r}])

(***************************************************************************)
(* Activation by the payment provider (ActivationService, routes/mpesa)    *)
(***************************************************************************)
\* ActivationService.initiateActivation: no row is written; the provider
\* answers with a new checkout id.
InitiateActivation(u, amount) ==
    /\ CanStart
    /\ \E c \in CheckoutIds : mpesa[c].payer = NullUser
    /\ UNCHANGED <<users, referrals, journal, withdrawals, tasks, inflight>>
    /\ IF ~users[u].exists
       THEN /\ resp' = Response("initiate", 404, "USER_NOT_FOUND")
            /\ UNCHANGED mpesa
       ELSE IF users[u].accountStatus = "ACTIVE"
       THEN /\ resp' = Response("initiate", 400, "ALREADY_ACTIVATED")
            /\ UNCHANGED mpesa
       ELSE IF amount # ACTIVATION_FEE
       THEN /\ resp' = Response("initiate", 400, "INVALID_AMOUNT")
            /\ UNCHANGED mpesa
       ELSE /\ resp' = Response("initiate", 200, "")
            /\ LET c == CHOOSE c \in CheckoutIds :
                           mpesa[c].payer = NullUser
                           /\ \A d \in 1..(c - 1) : mpesa[d].payer # NullUser
               IN mpesa' = [mpesa EXCEPT ![c].payer = u]

\* ActivationService.processSuccessfulActivation: one transaction that creates
\* the activation row with userId null.
processSuccessfulActivation(J, U, c) ==
    InsertEntry(J, U, ActivationEntry(NullUser, "CONFIRMED", c))

\* A callback route that activates the payer when the payment has failed.
ActivationCallbackFailureActivates(c, resultCode) ==
    /\ mpesa[c].payer # NullUser
    /\ mpesa[c].delivered < MaxDeliveries
    /\ UNCHANGED <<referrals, withdrawals, tasks, inflight>>
    /\ IF resultCode = 0
       THEN LET res == processSuccessfulActivation(journal, users, c)
            IN /\ journal' = res.journal
               /\ mpesa' = [mpesa EXCEPT ![c].delivered = @ + 1]
               /\ UNCHANGED users
               /\ resp' = Response("callback", 200,
                                   IF res.ok THEN "" ELSE "PRISMA_VALIDATION")
       ELSE /\ UNCHANGED <<journal, mpesa>>
            /\ users' = [users EXCEPT ![mpesa[c].payer].accountStatus = "ACTIVE"]
            /\ resp' = Response("callback", 200, "PAYMENT_FAILED")

\* A callback route that passes the error of its processing on to the caller.
ActivationCallbackRethrows(c, resultCode) ==
    /\ mpesa[c].payer # NullUser
    /\ mpesa[c].delivered < MaxDeliveries
    /\ UNCHANGED <<users, referrals, withdrawals, tasks, inflight>>
    /\ IF resultCode = 0
       THEN LET res == processSuccessfulActivation(journal, users, c)
            IN /\ journal' = res.journal
               /\ mpesa' = [mpesa EXCEPT ![c].delivered = @ + 1]
               /\ resp' = IF res.ok THEN Response("callback", 200, "")
                          ELSE Response("callback", 500, "PRISMA_VALIDATION")
       ELSE /\ UNCHANGED <<journal, mpesa>>
            /\ resp' = Response("callback", 200, "PAYMENT_FAILED")

\* POST /activation-callback: a delivery of the callback of checkout c.  The
\* answer is always ResultCode 0; err is the error the route caught.
ActivationCallback(c, resultCode) ==
    /\ mpesa[c].payer # NullUser
    /\ mpesa[c].delivered < MaxDeliveries
    /\ UNCHANGED <<users, referrals, withdrawals, tasks, inflight>>
    /\ IF resultCode = 0
       THEN LET res == processSuccessfulActivation(journal, users, c)
            IN /\ journal' = res.journal
               /\ mpesa' = [mpesa EXCEPT ![c].delivered = @ + 1]
               /\ resp' = Response("callback", 200,
                                   IF res.ok THEN "" ELSE "PRISMA_VALIDATION")
       ELSE /\ UNCHANGED <<journal, mpesa>>
            /\ resp' = Response("callback", 200, "PAYMENT_FAILED")

\* POST /activation-callback with a body that has no Body.stkCallback:
\* processActivationCallback throws and the route catches the error.
MalformedCallback ==
    /\ UNCHANGED <<users, referrals, journal, withdrawals, tasks, mpesa, inflight>>
    /\ resp' = Response("callback", 200, "MALFORMED")

\* POST /timeout: logs and acknowledges.
TimeoutCallback(c) ==
    /\ mpesa[c].payer # NullUser
    /\ UNCHANGED <<users, referrals, journal, withdrawals, tasks, mpesa, inflight>>
    /\ resp' = Response("timeout", 200, "")

\* ActivationService.processSuccessfulActivationWithUser: the read of the user
\* that opens the transaction.
WithUserRead(u, c) ==
    /\ CanStart
    /\ UNCHANGED <<users, referrals, journal, withdrawals, tasks, mpesa>>
    /\ IF ~users[u].exists
       THEN Reject(Response("confirm", 404, "USER_NOT_FOUND"))
       ELSE IF users[u].accountStatus = "ACTIVE"
       THEN Reject(Response("confirm", 400, "ALREADY_ACTIVATED"))
       ELSE Start(Proc("confirm", "tx", u, 0, c, "", {}))

\* The writes of processSuccessfulActivationWithUser: the CONFIRMED activation
\* row, the status, and the release of the rows that are PENDING once the
\* update of the user row has the row lock.
ConfirmCommit(db, u, c) ==
    ReleaseAll([users |-> [db.users EXCEPT ![u].accountStatus = "ACTIVE"],
                referrals |-> db.referrals,
                journal |-> Put(db.journal, ActivationEntry(u, "CONFIRMED", c))],
               PendingReferrals(db.referrals, u))

\* processSuccessfulActivationWithUser: the rest of the transaction.
WithUserTx(p) ==
    /\ p.op = "confirm" /\ p.pc = "tx"
    /\ UNCHANGED <<withdrawals, tasks, mpesa>>
    /\ IF ~users[p.user].exists
       THEN /\ UNCHANGED <<users, referrals, journal>>
            /\ Finish(p, Response("confirm", 500, "FOREIGN_KEY"))
       ELSE LET db == ConfirmCommit([users |-> users, referrals |-> referrals,
                                     journal |-> journal], p.user, p.wd)
            IN /\ users' = db.users
               /\ referrals' = db.referrals
               /\ journal' = db.journal
               /\ Finish(p, Response("confirm", 200, ""))

(***************************************************************************)
(* Tasks (taskController): watchVideo and claimWeeklyReward                *)
(***************************************************************************)
\* watchVideo up to its first query: protect and the check of the body.
WatchBegin(u, valid) ==
    /\ CanStart
    /\ UNCHANGED <<users, referrals, journal, withdrawals, tasks, mpesa>>
    /\ IF protect(u).code # 200 THEN Reject(protect(u))
       ELSE IF ~valid THEN Reject(Response("watch", 400, "INVALID_VIDEO"))
       ELSE Start(Proc("watch", "find", u, 0, 0, "", {}))

\* watchVideo: dailyTask.findUnique and the check of the row found.
WatchFind(p) ==
    /\ p.op = "watch" /\ p.pc = "find"
    /\ UNCHANGED <<users, referrals, journal, withdrawals, tasks, mpesa>>
    /\ IF ~tasks[p.user].daily THEN Continue(p, [p EXCEPT !.pc = "create"])
       ELSE IF tasks[p.user].watchVideos
       THEN Finish(p, Response("watch", 400, "TASK_ALREADY_COMPLETED"))
       ELSE Continue(p, [p EXCEPT !.pc = "update"])

\* watchVideo: dailyTask.create when no row was found; (userId, date) is unique.
WatchCreate(p) ==
    /\ p.op = "watch" /\ p.pc = "create"
    /\ UNCHANGED <<users, referrals, journal, withdrawals, mpesa>>
    /\ IF tasks[p.user].daily \/ ~users[p.user].exists
       THEN /\ UNCHANGED tasks
            /\ Finish(p, Response("watch", 500, "CONSTRAINT"))
       ELSE /\ tasks' = [tasks EXCEPT ![p.user].daily = TRUE]
            /\ Continue(p, [p EXCEPT !.pc = "update"])

\* watchVideo: dailyTask.update({watchVideos: true}).
WatchUpdate(p) ==
    /\ p.op = "watch" /\ p.pc = "update"
    /\ UNCHANGED <<users, referrals, journal, withdrawals, mpesa>>
    /\ IF tasks[p.user].daily
       THEN /\ tasks' = [tasks EXCEPT ![p.user].watchVideos = TRUE]
            /\ Continue(p, [p EXCEPT !.pc = "entry"])
       ELSE /\ UNCHANGED tasks
            /\ Finish(p, Response("watch", 500, "NOT_FOUND"))

\* watchVideo: transaction.create of the CONFIRMED ADS_VIEWING_BONUS row.
WatchEntry(p) ==
    /\ p.op = "watch" /\ p.pc = "entry"
    /\ UNCHANGED <<users, referrals, withdrawals, tasks, mpesa>>
    /\ LET ins == InsertEntry(journal, users,
                              Entry(p.user, "ADS_VIEWING_BONUS", videoReward,
                                    "CONFIRMED", 0, 0, 0))
       IN /\ journal' = ins.journal
          /\ IF ins.ok THEN Continue(p, [p EXCEPT !.pc = "credit"])
             ELSE Finish(p, Response("watch", 500, "FOREIGN_KEY"))

\* watchVideo: user.update incrementing availableBalance and totalEarned, and
\* the response.
WatchCredit(p) ==
    /\ p.op = "watch" /\ p.pc = "credit"
    /\ UNCHANGED <<referrals, journal, withdrawals, tasks, mpesa>>
    /\ IF users[p.user].exists
       THEN /\ users' = [users EXCEPT ![p.user].availableBalance = @ + videoReward,
                                      ![p.user].totalEarned = @ + videoReward]
            /\ Finish(p, Response("watch", 200, ""))
       ELSE /\ UNCHANGED users
            /\ Finish(p, Response("watch", 500, "NOT_FOUND"))

\* claimWeeklyReward up to its transaction: the read of the week's row and the
\* checks on it.
ClaimFind(u, challengeId) ==
    /\ CanStart
    /\ UNCHANGED <<users, referrals, journal, withdrawals, tasks, mpesa>>
    /\ IF protect(u).code # 200 THEN Reject(protect(u))
       ELSE IF ~tasks[u].weekly
       THEN Reject(Response("claim", 404, "CHALLENGE_NOT_FOUND"))
       ELSE IF tasks[u].rewardClaimed
       THEN Reject(Response("claim", 400, "ALREADY_CLAIMED"))
       ELSE IF challengeId # "refer5Members"
       THEN Reject(Response("claim", 400, "INVALID_CHALLENGE"))
       ELSE IF ~tasks[u].refer5Members
       THEN Reject(Response("claim", 400, "NOT_COMPLETED"))
       ELSE Start(Proc("claim", "tx", u, WEEKLY_CHALLENGE_BONUS, 0, "", {}))

\* claimWeeklyReward: the transaction and the response.
ClaimTx(p) ==
    /\ p.op = "claim" /\ p.pc = "tx"
    /\ UNCHANGED <<referrals, withdrawals, mpesa>>
    /\ IF users[p.user].exists /\ tasks[p.user].weekly
       THEN /\ tasks' = [tasks EXCEPT ![p.user].rewardClaimed = TRUE]
            /\ journal' = Put(journal, Entry(p.user, "WEEKLY_CHALLENGE_BONUS", p.amount,
                                             "CONFIRMED", 0, 0, 0))
            /\ users' = [users EXCEPT ![p.user].availableBalance = @ + p.amount,
                                      ![p.user].totalEarned = @ + p.amount]
            /\ Finish(p, Response("claim", 200, ""))
       ELSE /\ UNCHANGED <<users, journal, tasks>>
            /\ Finish(p, Response("claim", 500, "NOT_FOUND"))

(***************************************************************************)
(* Specification of the withdrawal state machine: both users are ACTIVE,   *)
(* user 1 has claimed SeedClaims or 2*SeedClaims weekly challenge rewards. *)
(***************************************************************************)
SeededUser(k) ==
    [NewUser(NullUser) EXCEPT !.accountStatus = "ACTIVE",
                              !.availableBalance = k * WEEKLY_CHALLENGE_BONUS,
                              !.totalEarned = k * WEEKLY_CHALLENGE_BONUS]

SeededJournal(u, k) ==
    IF k = 0 THEN SetToBag({Entry(u, "ACCOUNT_ACTIVATION", ACTIVATION_FEE, "CONFIRMED", 0, 0, 0)})
    ELSE [r \in {Entry(u, "ACCOUNT_ACTIVATION", ACTIVATION_FEE, "CONFIRMED", 0, 0, 0),
                 Entry(u, "WEEKLY_CHALLENGE_BONUS", WEEKLY_CHALLENGE_BONUS, "CONFIRMED", 0, 0, 0)}
          |-> IF r.type = "ACCOUNT_ACTIVATION" THEN 1 ELSE k]

NoTasks == [u \in Users |-> [daily |-> FALSE, watchVideos |-> FALSE, weekly |-> FALSE,
                             refer5Members |-> FALSE, rewardClaimed |-> FALSE]]
NoMpesa == [c \in CheckoutIds |-> [payer |-> NullUser, delivered |-> 0]]

InitW ==
    /\ \E k \in {SeedClaims} :
          /\ users = [u \in Users |-> IF u = 1 THEN SeededUser(k)
                                      ELSE IF u = 2 THEN SeededUser(0) ELSE NoUser]
          /\ journal = SeededJournal(1, k) (+) SeededJournal(2, 0)
    /\ referrals = {}
    /\ withdrawals = <<>>
    /\ tasks = NoTasks
    /\ mpesa = NoMpesa
    /\ inflight = EmptyBag
    /\ resp = Response("", 0, "")

NextW ==
    \/ \E u \in Users, a \in Amounts : RequestBegin(u, a)
    \/ \E p \in DOMAIN inflight : RequestFind(p)
    \/ \E p \in DOMAIN inflight : RequestTx(p)
    \/ \E u \in Users, w \in WithdrawalIds : CancelBegin(u, w)
    \/ \E p \in DOMAIN inflight : CancelFind(p)
    \/ \E p \in DOMAIN inflight : CancelTx(p)
    \/ \E u \in Users, w \in WithdrawalIds : RetryBegin(u, w)
    \/ \E p \in DOMAIN inflight : RetryFind(p)
    \/ \E p \in DOMAIN inflight : RetryBalance(p)
    \/ \E p \in DOMAIN inflight : RetryTx(p)
    \/ \E w \in WithdrawalIds, s \in {"COMPLETED", "REJECTED"}, d \in BOOLEAN :
          ResolveFind(w, s, d)
    \/ \E p \in DOMAIN inflight : ResolveTx(p)

SpecW == InitW /\ [][NextW]_vars

(***************************************************************************)
(* Properties of the withdrawal state machine                              *)
(***************************************************************************)
\* The journal row correlated with withdrawal request w has a status in S.
WithdrawalEntryIn(w, S) ==
    \E r \in DOMAIN journal :
        r.type = "WITHDRAW_TO_MPESA" /\ r.wr = w /\ r.status \in S

\* The step commits the transaction of handler p.
Commits(p, op) ==
    /\ p \in DOMAIN inflight
    /\ p.op = op /\ p.pc = "tx"
    /\ inflight' = Take(inflight, p)

RECURSIVE SumReserved(_, _, _)
SumReserved(W, u, i) ==
    IF i = 0 THEN 0
    ELSE (IF W[i].userId = u /\ W[i].status \in {"PENDING", "PROCESSING"}
          THEN W[i].amount ELSE 0) + SumReserved(W, u, i - 1)

\* availableBalance plus the amounts of the user's outstanding requests.
Held(U, W, u) == U[u].availableBalance + SumReserved(W, u, Len(W))

\* C1: in every reachable state every user's availableBalance and
\* pendingEarnings are at least 0.
C1_NonNegativeBalances ==
    \A u \in Users :
        users[u].exists =>
            users[u].availableBalance >= 0 /\ users[u].pendingEarnings >= 0

\* C2: the commit of a request, of a cancel, of a retry and of an admin
\* REJECTED resolution leaves availableBalance plus the reserved amounts of
\* every user unchanged.
C2_ReservationConserved ==
    [][\A p \in DOMAIN inflight :
          (\/ Commits(p, "request")
           \/ Commits(p, "cancel")
           \/ Commits(p, "retry")
           \/ Commits(p, "resolve") /\ p.status = "REJECTED")
          => \A u \in Users :
                Held(users', withdrawals', u) = Held(users, withdrawals, u)]_vars

C9_SingleAdminResolution ==
    [][\A p \in DOMAIN inflight :
          Commits(p, "resolve") => ~WithdrawalEntryIn(p.wd, {"CONFIRMED", "FAILED"})]_vars

\* C10: an admin resolution is never committed on a request its owner has
\* cancelled, and a cancel is never committed on a request an admin has
\* resolved, so that a resolution and a cancel never both take effect.
C10_ResolveCancelExclusive ==
    [][\A p \in DOMAIN inflight :
          /\ Commits(p, "resolve") => ~WithdrawalEntryIn(p.wd, {"CANCELLED"})
          /\ Commits(p, "cancel") => ~WithdrawalEntryIn(p.wd, {"CONFIRMED", "FAILED"})]_vars

\* C11: in every reachable state every user has at most one withdrawal request
\* in status PENDING or PROCESSING.
C11_OneOutstandingRequest ==
    \A u \in Users : Cardinality(Outstanding(withdrawals, u)) <= 1

\* C12: a withdrawal request in status COMPLETED keeps that status in every
\* step, and no step that finishes a resolve, cancel or retry of a COMPLETED
\* request changes the owner's availableBalance or totalWithdrawn.
C12_CompletedIsTerminal ==
    [][\A w \in DOMAIN withdrawals :
          withdrawals[w].status = "COMPLETED" =>
              /\ withdrawals'[w].status = "COMPLETED"
              /\ \A p \in DOMAIN inflight :
                    (p.wd = w /\ (\/ Commits(p, "resolve")
                                  \/ Commits(p, "cancel")
                                  \/ Commits(p, "retry")))
                    => LET u == withdrawals[w].userId
                       IN /\ users'[u].availableBalance = users[u].availableBalance
                          /\ users'[u].totalWithdrawn = users[u].totalWithdrawn]_vars

\* Request w has a correlated journal row and every such row has status st.
WithdrawalEntryIs(J, w, st) ==
    /\ \E r \in DOMAIN J : r.type = "WITHDRAW_TO_MPESA" /\ r.wr = w
    /\ \A r \in DOMAIN J : (r.type = "WITHDRAW_TO_MPESA" /\ r.wr = w) => r.status = st

\* Nothing is written and no handler starts.
Refused == UNCHANGED <<users, referrals, journal, withdrawals, inflight>>

\* C13: a COMPLETED resolution without the payout code is refused by the
\* validation, and the commit of a COMPLETED resolution of a PENDING request
\* adds the amount to the owner's totalWithdrawn, changes no other column of
\* any user, sets the request COMPLETED and its journal row CONFIRMED.
C13_ResolveCompleted ==
    [][/\ \A w \in WithdrawalIds :
             ResolveFind(w, "COMPLETED", FALSE) =>
                 (resp' = Response("validate", 400, "CODE_REQUIRED") /\ Refused)
       /\ \A p \in DOMAIN inflight :
             (Commits(p, "resolve") /\ p.status = "COMPLETED"
                  /\ withdrawals[p.wd].status = "PENDING") =>
                 LET u == withdrawals[p.wd].userId
                     amount == withdrawals[p.wd].amount
                 IN /\ users' = [users EXCEPT ![u].totalWithdrawn = @ + amount]
                    /\ withdrawals' = [withdrawals EXCEPT ![p.wd].status = "COMPLETED"]
                    /\ WithdrawalEntryIs(journal', p.wd, "CONFIRMED")
                    /\ resp' = Response("resolve", 200, "")]_vars

\* C13 witness: a request of the seeded user has been resolved COMPLETED: the
\* amount is in totalWithdrawn and the journal row is CONFIRMED.
C13_Witness ==
    \E w \in DOMAIN withdrawals :
        /\ withdrawals[w].status = "COMPLETED"
        /\ WithdrawalEntryIs(journal, w, "CONFIRMED")
        /\ resp = Response("resolve", 200, "")
        /\ users[withdrawals[w].userId].totalWithdrawn = withdrawals[w].amount
        /\ users[withdrawals[w].userId].availableBalance
               = SeedClaims * WEEKLY_CHALLENGE_BONUS - withdrawals[w].amount

\* C14: a REJECTED resolution without the reason is refused by the
\* validation; the commit of a REJECTED resolution of a PENDING request adds
\* the amount to the owner's availableBalance, changes no other column of any
\* user, sets the request REJECTED and its journal row FAILED; and a request
\* followed by its rejection gives back the balance columns of before.
C14_ResolveRejected ==
    [][/\ \A w \in WithdrawalIds :
             ResolveFind(w, "REJECTED", FALSE) =>
                 (resp' = Response("validate", 400, "REASON_REQUIRED") /\ Refused)
       /\ \A p \in DOMAIN inflight :
             (Commits(p, "resolve") /\ p.status = "REJECTED"
                  /\ withdrawals[p.wd].status = "PENDING") =>
                 LET u == withdrawals[p.wd].userId
                     amount == withdrawals[p.wd].amount
                 IN /\ users' = [users EXCEPT ![u].availableBalance = @ + amount]
                    /\ withdrawals' = [withdrawals EXCEPT ![p.wd].status = "REJECTED"]
                    /\ WithdrawalEntryIs(journal', p.wd, "FAILED")
                    /\ resp' = Response("resolve", 200, "")
       /\ \A u \in Users, amount \in Amounts :
             (requestChecks(u, amount).code = 200 /\ Outstanding(withdrawals, u) = {}) =>
                 LET d1 == RequestCommit(DB, u, amount)
                     d2 == ResolveCommit(d1, Len(d1.withdrawals), "REJECTED")
                 IN /\ d1.users[u].availableBalance = users[u].availableBalance - amount
                    /\ Balances(d2.users[u]) = Balances(users[u])]_vars

\* C14 witness: the seeded user with balance 1000 requested 1000, the request
\* was rejected, and the balance is 1000 again.
C14_Witness ==
    \E w \in DOMAIN withdrawals :
        /\ withdrawals[w].status = "REJECTED"
        /\ withdrawals[w].amount = MIN_WITHDRAWAL_AMOUNT
        /\ WithdrawalEntryIs(journal, w, "FAILED")
        /\ resp = Response("resolve", 200, "")
        /\ users[withdrawals[w].userId].availableBalance = MIN_WITHDRAWAL_AMOUNT
        /\ users[withdrawals[w].userId].totalWithdrawn = 0

\* Handler p of operation op sends its response in this step.
Ends(p, op) ==
    /\ p \in DOMAIN inflight
    /\ p.op = op
    /\ inflight' = Take(inflight, p)

\* Request w exists and belongs to user u.
Owns(u, w) == w \in DOMAIN withdrawals /\ withdrawals[w].userId = u

\* C15: a cancel that ends on a request of its user in status PENDING is
\* accepted, refunds the amount, puts the request in REJECTED and its journal
\* row in CANCELLED; a cancel that ends on a request in any other status
\* fails and changes no user, request or journal row.
C15_CancelOnlyPending ==
    [][\A p \in DOMAIN inflight :
          Ends(p, "cancel") =>
              IF Owns(p.user, p.wd) /\ withdrawals[p.wd].status = "PENDING"
              THEN /\ resp' = Response("cancel", 200, "")
                   /\ users' = [users EXCEPT ![p.user].availableBalance
                                                 = @ + withdrawals[p.wd].amount]
                   /\ withdrawals' = [withdrawals EXCEPT ![p.wd].status = "REJECTED"]
                   /\ WithdrawalEntryIs(journal', p.wd, "CANCELLED")
              ELSE /\ resp'.code # 200
                   /\ UNCHANGED <<users, withdrawals, journal>>]_vars

\* C16: a retry that ends on a request of its user in status REJECTED while
\* the owner's availableBalance is at least the amount is accepted, takes the
\* amount from availableBalance and puts the request and its journal row in
\* PENDING; every other retry fails and changes no user, request or journal
\* row.
C16_RetryOnlyRejectedAndFunded ==
    [][\A p \in DOMAIN inflight :
          Ends(p, "retry") =>
              IF /\ Owns(p.user, p.wd)
                 /\ withdrawals[p.wd].status = "REJECTED"
                 /\ users[p.user].availableBalance >= withdrawals[p.wd].amount
              THEN /\ resp' = Response("retry", 200, "")
                   /\ users' = [users EXCEPT ![p.user].availableBalance
                                                 = @ - withdrawals[p.wd].amount]
                   /\ withdrawals' = [withdrawals EXCEPT ![p.wd].status = "PENDING"]
                   /\ WithdrawalEntryIs(journal', p.wd, "PENDING")
              ELSE /\ resp'.code # 200
                   /\ UNCHANGED <<users, withdrawals, journal>>]_vars

\* C17: a request with an amount below the minimum is refused with an error,
\* for an ACTIVE user the validation error of the amount, and writes nothing:
\* no request, no journal row, no balance; and no request below the minimum
\* is ever committed.
C17_BelowMinimumRefused ==
    [][/\ \A u \in Users, amount \in Amounts :
             (amount < MIN_WITHDRAWAL_AMOUNT /\ RequestBegin(u, amount)) =>
                 /\ resp'.code >= 400
                 /\ (users[u].exists /\ users[u].accountStatus = "ACTIVE") =>
                        (resp'.op = "validate" /\ resp'.code = 400)
                 /\ Refused
       /\ \A p \in DOMAIN inflight :
             Commits(p, "request") => p.amount >= MIN_WITHDRAWAL_AMOUNT]_vars

\* C17 witness: the seeded user asked for less than the minimum and was
\* refused; no request exists and the balance is the seeded one.
C17_Witness ==
    /\ resp = Response("validate", 400, "AMOUNT_BELOW_MINIMUM")
    /\ withdrawals = <<>>
    /\ inflight = EmptyBag
    /\ users[1].availableBalance = SeedClaims * WEEKLY_CHALLENGE_BONUS

\* C18: a request of an ACTIVE user for an amount above the user's
\* availableBalance is refused with the insufficient-balance error and writes
\* nothing, and no request is committed for more than the availableBalance of
\* its user.
C18_InsufficientFundsRefused ==
    [][/\ \A u \in Users, amount \in Amounts :
             (/\ users[u].exists /\ users[u].accountStatus = "ACTIVE"
              /\ amount >= MIN_WITHDRAWAL_AMOUNT
              /\ amount > users[u].availableBalance
              /\ RequestBegin(u, amount)) =>
                 (resp' = Response("request", 400, "INSUFFICIENT_BALANCE") /\ Refused)
       /\ \A p \in DOMAIN inflight :
             Commits(p, "request") => p.amount <= users[p.user].availableBalance]_vars

(***************************************************************************)
(* Specification of activation by POST /activate.  It starts after the     *)
(* registrations of user 1 and of users 2, 3 and 4, each with the code of  *)
(* the user before it.                                                     *)
(***************************************************************************)
Registered ==
    LET d0 == [users |-> [u \in Users |-> NoUser], referrals |-> {}]
        d1 == RegisterCommit(d0.users, d0.referrals, 1, NullUser, NullUser)
        d2 == RegisterCommit(d1.users, d1.referrals, 2, 1, 1)
        d3 == RegisterCommit(d2.users, d2.referrals, 3, 2, 2)
    IN RegisterCommit(d3.users, d3.referrals, 4, 3, 3)

InitA ==
    /\ users = Registered.users
    /\ referrals = Registered.referrals
    /\ journal = EmptyBag
    /\ withdrawals = <<>>
    /\ tasks = NoTasks
    /\ mpesa = NoMpesa
    /\ inflight = EmptyBag
    /\ resp = Response("", 0, "")

NextA ==
    \/ \E u \in Users : ActivateBegin(u)
    \/ \E p \in DOMAIN inflight : ActivateCreate(p)
    \/ \E p \in DOMAIN inflight : ActivateUser(p)
    \/ \E p \in DOMAIN inflight : ActivateConfirm(p)
    \/ \E p \in DOMAIN inflight : ActivateFind(p)
    \/ \E p \in DOMAIN inflight : ActivateRelease(p, FALSE)

SpecA == InitA /\ [][NextA]_vars

(***************************************************************************)
(* Specification of activation by POST /activate in which a transaction of *)
(* the bonus release may fail in the database.                             *)
(***************************************************************************)
InitF == InitA

NextF ==
    \/ \E u \in Users : ActivateBegin(u)
    \/ \E p \in DOMAIN inflight : ActivateCreate(p)
    \/ \E p \in DOMAIN inflight : ActivateUser(p)
    \/ \E p \in DOMAIN inflight : ActivateConfirm(p)
    \/ \E p \in DOMAIN inflight : ActivateFind(p)
    \/ \E p \in DOMAIN inflight, fault \in BOOLEAN : ActivateRelease(p, fault)

SpecF == InitF /\ [][NextF]_vars

(***************************************************************************)
(* Specification of registration, from the empty database.  Every          *)
(* registrant brings a phone number and an email address of its own: the   *)
(* next unused ones; two registrations in flight may bring the same.       *)
(***************************************************************************)
Forms == {"0", "254"}
Cases == {"lower", "mixed"}

NextContact == 1 + Cardinality({u \in Users : ~Unused(users[u])})

InitR ==
    /\ users = [u \in Users |-> NoUser]
    /\ referrals = {}
    /\ journal = EmptyBag
    /\ withdrawals = <<>>
    /\ tasks = NoTasks
    /\ mpesa = NoMpesa
    /\ inflight = EmptyBag
    /\ resp = Response("", 0, "")

NextR ==
    \/ \E f \in Forms, c \in Cases, code \in Users \cup {NullUser} :
          RegisterBegin(Phone(NextContact, f), Email(NextContact, c), code)
    \/ \E p \in DOMAIN inflight : RegisterFind(p)
    \/ \E p \in DOMAIN inflight, fault \in 0..MaxWrites : RegisterTx(p, fault)

SpecR == InitR /\ [][NextR]_vars

(***************************************************************************)
(* Specification of registration and of the creation of users by an admin, *)
(* from the empty database.  Each of MaxContacts persons has one phone     *)
(* number and one email address and sends them in either written form.     *)
(***************************************************************************)
Contacts == 1..MaxContacts

InitS == InitR

NextS ==
    \/ \E n \in Contacts, f \in Forms, c \in Cases, code \in Users \cup {NullUser} :
          RegisterBegin(Phone(n, f), Email(n, c), code)
    \/ \E p \in DOMAIN inflight : RegisterFind(p)
    \/ \E p \in DOMAIN inflight : RegisterTx(p, MaxWrites)
    \/ \E n \in Contacts, f \in Forms, c \in Cases :
          AdminCreateUser(Phone(n, f), Email(n, c), "UNVERIFIED")

SpecS == InitS /\ [][NextS]_vars

(***************************************************************************)
(* Specification of the activation driven by the payment provider, with    *)
(* the same registered users.                                              *)
(***************************************************************************)
InitM == InitA

NextM ==
    \/ \E u \in Users, a \in {ACTIVATION_FEE, MIN_WITHDRAWAL_AMOUNT} : InitiateActivation(u, a)
    \/ \E c \in CheckoutIds, rc \in {0, 1032, 1037} : ActivationCallback(c, rc)
    \/ MalformedCallback
    \/ \E c \in CheckoutIds : TimeoutCallback(c)
    \/ \E u \in Users, c \in CheckoutIds : WithUserRead(u, c)
    \/ \E p \in DOMAIN inflight : WithUserTx(p)

SpecM == InitM /\ [][NextM]_vars

(***************************************************************************)
(* Specification of the tasks: users 1 and 2 are ACTIVE and user 1 has     *)
(* completed this week's refer5Members challenge.                          *)
(***************************************************************************)
InitT ==
    /\ users = [u \in Users |-> IF u \in {1, 2} THEN SeededUser(0) ELSE NoUser]
    /\ journal = SeededJournal(1, 0) (+) SeededJournal(2, 0)
    /\ referrals = {}
    /\ withdrawals = <<>>
    /\ tasks = [NoTasks EXCEPT ![1].weekly = TRUE, ![1].refer5Members = TRUE]
    /\ mpesa = NoMpesa
    /\ inflight = EmptyBag
    /\ resp = Response("", 0, "")

NextT ==
    \/ \E u \in Users, valid \in BOOLEAN : WatchBegin(u, valid)
    \/ \E p \in DOMAIN inflight : WatchFind(p)
    \/ \E p \in DOMAIN inflight : WatchCreate(p)
    \/ \E p \in DOMAIN inflight : WatchUpdate(p)
    \/ \E p \in DOMAIN inflight : WatchEntry(p)
    \/ \E p \in DOMAIN inflight : WatchCredit(p)
    \/ \E u \in Users, ch \in {"refer5Members", "complete10Tasks"} : ClaimFind(u, ch)
    \/ \E p \in DOMAIN inflight : ClaimTx(p)

SpecT == InitT /\ [][NextT]_vars

(***************************************************************************)
(* Properties of activation                                                *)
(***************************************************************************)
ActivationEntries(J, c) ==
    CountEntries(J, {e \in DOMAIN J : e.type = "ACCOUNT_ACTIVATION" /\ e.chk = c})

ConfirmedActivations(J, u) ==
    CountEntries(J, {e \in DOMAIN J : e.type = "ACCOUNT_ACTIVATION" /\ e.userId = u
                                            /\ e.status = "CONFIRMED"})

BonusEntries(J, r) ==
    CountEntries(J, {e \in DOMAIN J : e.userId = r.referrerId /\ e.about = r.referredId
                                            /\ e.type = BonusType(r.level)})

\* A delivery of the successful callback of checkout c is processed in this step.
Delivered(c) == mpesa'[c].delivered = mpesa[c].delivered + 1

\* C3 - once the successful callback of a checkout has been delivered twice,
\* the journal holds exactly one ACCOUNT_ACTIVATION row of that checkout and at
\* most one bonus row for each referral record of the payer.
C3_OneEntryPerActivation ==
    \A c \in CheckoutIds :
        mpesa[c].delivered >= 2 =>
            /\ ActivationEntries(journal, c) = 1
            /\ \A r \in referrals : r.referredId = mpesa[c].payer => BonusEntries(journal, r) <= 1

\* C4 - every referral record is credited to its referrer at most once: the
\* journal never holds two bonus rows for the same record.
C4_ReleasedAtMostOnce ==
    \A r \in referrals : BonusEntries(journal, r) <= 1

\* C5 - a successful callback processed for an UNVERIFIED payer leaves the
\* payer ACTIVE with one CONFIRMED activation row, and every referral record
\* of the payer AVAILABLE with its amount moved from the referrer's
\* pendingEarnings to availableBalance and totalEarned.
C5_CallbackActivates ==
    [][\A c \in CheckoutIds :
          (Delivered(c) /\ users[mpesa[c].payer].accountStatus = "UNVERIFIED") =>
              LET u == mpesa[c].payer
              IN /\ users'[u].accountStatus = "ACTIVE"
                 /\ ConfirmedActivations(journal', u) = 1
                 /\ PendingReferrals(referrals', u) = {}
                 /\ \A r \in PendingReferrals(referrals, u) :
                       /\ users'[r.referrerId].pendingEarnings
                             = users[r.referrerId].pendingEarnings - r.earningsAmount
                       /\ users'[r.referrerId].availableBalance
                             = users[r.referrerId].availableBalance + r.earningsAmount
                       /\ users'[r.referrerId].totalEarned
                             = users[r.referrerId].totalEarned + r.earningsAmount]_vars

\* C6 - a confirmation for a user who is already ACTIVE, by
\* processSuccessfulActivationWithUser or by a delivery of the callback,
\* raises no error and changes no user, referral or journal row.
C6_ConfirmActiveIsNoOp ==
    [][/\ \A u \in Users, c \in CheckoutIds :
             (users[u].exists /\ users[u].accountStatus = "ACTIVE" /\ WithUserRead(u, c)) =>
                 (resp'.err = "" /\ UNCHANGED <<users, referrals, journal>>)
       /\ \A c \in CheckoutIds :
             (Delivered(c) /\ users[mpesa[c].payer].accountStatus = "ACTIVE") =>
                 (resp'.err = "" /\ UNCHANGED <<users, referrals, journal>>)]_vars

(***************************************************************************)
(* Properties of the earnings                                              *)
(***************************************************************************)
EarningTypes ==
    {"LEVEL_1_REFERRAL_BONUS", "LEVEL_2_REFERRAL_BONUS", "LEVEL_3_REFERRAL_BONUS",
     "WEEKLY_CHALLENGE_BONUS", "ADS_VIEWING_BONUS", "WHEEL_SPIN_BONUS",
     "COMMISSION_BONUS", "ACADEMIC_WRITING_BONUS"}

ConfirmedEarnings(J, u) ==
    AmountOfEntries(J, {e \in DOMAIN J : e.userId = u /\ e.status = "CONFIRMED"
                                               /\ e.type \in EarningTypes})

\* C7 - in every state the totalEarned of every user is the sum of the amounts
\* of the user's CONFIRMED journal rows of an earning type.
C7_TotalEarnedMatchesJournal ==
    \A u \in Users : users[u].exists => users[u].totalEarned = ConfirmedEarnings(journal, u)

(***************************************************************************)
(* Properties of registration                                              *)
(***************************************************************************)
\* The user whose referral code user u registered with (NullUser if none).
Parent(u) == IF u = NullUser THEN NullUser ELSE users[u].referredBy

\* The ancestor of level l of a user registering with the code of user a.
LevelAncestor(a, l) ==
    IF l = 1 THEN a ELSE IF l = 2 THEN Parent(a) ELSE Parent(Parent(a))

LevelAmount(l) == <<LEVEL_1, LEVEL_2, LEVEL_3>>[l]

\* C19: the commit of a registration with the code of user a creates, for
\* each of the levels 1, 2, 3 at which a has an ancestor, exactly one PENDING
\* referral record of that ancestor with the amount of the level, and adds 1
\* to the ancestor's totalReferrals and the amount to its pendingEarnings;
\* nothing else of an existing user changes, and a referrer without a
\* referrer of its own yields exactly one record.
C19_RegistrationPaysEachLevel ==
    [][\A p \in DOMAIN inflight :
          (Commits(p, "register") /\ resp' = Response("register", 201, "") /\ p.todo # NullUser) =>
              LET a == p.todo
                  created == referrals' \ referrals
                  reached == {l \in 1..3 : LevelAncestor(a, l) # NullUser}
              IN /\ \E new \in Users :
                       /\ ~users[new].exists
                       /\ users'[new] = [NewUser(a) EXCEPT !.phoneNumber = p.phoneNumber,
                                                            !.email = p.email]
                       /\ \A l \in reached :
                             \E r \in created :
                                /\ r.referrerId = LevelAncestor(a, l)
                                /\ r.referredId = new
                                /\ r.level = l
                                /\ r.earningsStatus = "PENDING"
                                /\ r.earningsAmount = LevelAmount(l)
                       /\ \A u \in Users \ {new} :
                             users'[u] =
                                IF \E l \in reached : LevelAncestor(a, l) = u
                                THEN LET l == CHOOSE l \in reached : LevelAncestor(a, l) = u
                                     IN [users[u] EXCEPT !.totalReferrals = @ + 1,
                                                         !.pendingEarnings = @ + LevelAmount(l)]
                                ELSE users[u]
                 /\ Cardinality(created) = Cardinality(reached)
                 /\ referrals \subseteq referrals'
                 /\ Parent(a) = NullUser => Cardinality(created) = 1]_vars

\* C19 witness: user 4 has registered with the code of user 3, whose chain is
\* 3, 2, 1: the three records of user 4 exist and user 1 has the 50 of level 3
\* on top of the 300 and 100 it had.
C19_Witness ==
    /\ users[4].exists /\ users[4].referredBy = 3
    /\ resp = Response("register", 201, "")
    /\ \A l \in 1..3 :
          \E r \in referrals : /\ r.referredId = 4 /\ r.level = l
                               /\ r.referrerId = 4 - l
                               /\ r.earningsAmount = LevelAmount(l)
    /\ users[1].totalReferrals = 3
    /\ users[1].pendingEarnings = LEVEL_1 + LEVEL_2 + LEVEL_3

(***************************************************************************)
(* Properties of the bonus release                                         *)
(***************************************************************************)
LevelBonusType(l) ==
    <<"LEVEL_1_REFERRAL_BONUS", "LEVEL_2_REFERRAL_BONUS", "LEVEL_3_REFERRAL_BONUS">>[l]

\* Referral record r goes from PENDING to AVAILABLE in this step.
Released(r) ==
    /\ r \in referrals /\ r.earningsStatus = "PENDING"
    /\ r \notin referrals'
    /\ [r EXCEPT !.earningsStatus = "AVAILABLE"] \in referrals'

\* Number of ACCOUNT_ACTIVATION rows of user u: one per activation attempt
\* that has reached its first write.
ActivationAttempts(J, u) ==
    CountEntries(J, {e \in DOMAIN J : e.type = "ACCOUNT_ACTIVATION" /\ e.userId = u})

\* The CONFIRMED bonus rows of referral record r with the type and the amount
\* of its level.
LevelBonusEntries(J, r) ==
    CountEntries(J, {e \in DOMAIN J : /\ e.userId = r.referrerId
                                       /\ e.about = r.referredId
                                       /\ e.type = LevelBonusType(r.level)
                                       /\ e.amount = LevelAmount(r.level)
                                       /\ e.status = "CONFIRMED"})

\* C20: the step that releases a referral record of level l moves the amount
\* of the level (300, 100, 50) from the referrer's pendingEarnings to its
\* availableBalance and totalEarned and adds one CONFIRMED bonus row of the
\* level; and when the activation of a user who made one attempt answers 200,
\* every referral record of the user is AVAILABLE and has exactly one bonus
\* row: for the chain 1 <- 2 <- 3 <- 4, users 3, 2 and 1 get one bonus each.
C20_ChainBonuses ==
    [][/\ \A r \in referrals :
             Released(r) =>
                 /\ r.earningsAmount = LevelAmount(r.level)
                 /\ users' = [users EXCEPT
                                 ![r.referrerId].pendingEarnings = @ - LevelAmount(r.level),
                                 ![r.referrerId].availableBalance = @ + LevelAmount(r.level),
                                 ![r.referrerId].totalEarned = @ + LevelAmount(r.level)]
                 /\ LevelBonusEntries(journal', r) = LevelBonusEntries(journal, r) + 1
                 /\ BagCardinality(journal') = BagCardinality(journal) + 1
       /\ \A p \in DOMAIN inflight :
             (/\ Ends(p, "activate") /\ resp' = Response("activate", 200, "")
              /\ ActivationAttempts(journal', p.user) = 1) =>
                 \A r \in referrals' :
                     r.referredId = p.user =>
                         /\ r.earningsStatus = "AVAILABLE"
                         /\ LevelBonusEntries(journal', r) = 1
                         /\ BonusEntries(journal', r) = 1]_vars

\* C20 witness: user 4, registered under 3 <- 2 <- 1, has activated: its three
\* records are AVAILABLE and users 3, 2, 1 have 300, 100, 50 with one bonus
\* row each.
C20_Witness ==
    /\ users[4].exists /\ users[4].referredBy = 3 /\ users[4].accountStatus = "ACTIVE"
    /\ resp = Response("activate", 200, "")
    /\ \A l \in 1..3 :
          /\ \E r \in referrals :
                /\ r.referredId = 4 /\ r.referrerId = 4 - l /\ r.level = l
                /\ r.earningsStatus = "AVAILABLE"
                /\ LevelBonusEntries(journal, r) = 1
          /\ users[4 - l].availableBalance = LevelAmount(l)
          /\ users[4 - l].totalEarned = LevelAmount(l)
    /\ users[3].pendingEarnings = 0
    /\ users[2].pendingEarnings = LEVEL_1
    /\ users[1].pendingEarnings = LEVEL_1 + LEVEL_2

\* The records in which user d is the referred party.
RecordsOf(R, d) == {r \in R : r.referredId = d}

\* C21: a registration creates at most 3 referral records, all of the new
\* user, with pairwise distinct levels out of {1, 2, 3}; a user that is not one
\* of the three nearest ancestors of the new user (the fourth ancestor of a
\* longer chain in particular) gets no record and no increment.  In every
\* state a user has at most 3 records as the referred party, of distinct levels.
C21_AtMostThreeLevels ==
    [][/\ \A d \in Users :
             /\ Cardinality(RecordsOf(referrals', d)) <= 3
             /\ \A r, q \in RecordsOf(referrals', d) :
                   r.level \in 1..3 /\ (r.level = q.level => r = q)
       /\ \A p \in DOMAIN inflight :
             (Commits(p, "register") /\ resp' = Response("register", 201, "")) =>
                 LET a == p.todo
                     created == referrals' \ referrals
                     near == {LevelAncestor(a, l) : l \in 1..3}
                 IN /\ Cardinality(created) <= 3
                    /\ \A r \in created :
                          /\ r.level \in 1..3
                          /\ r.referrerId = LevelAncestor(a, r.level)
                          /\ ~users[r.referredId].exists
                    /\ \A r, q \in created : r.level = q.level => r = q
                    /\ \A u \in Users :
                          (users[u].exists /\ u \notin near) =>
                              /\ users'[u] = users[u]
                              /\ \A r \in created : r.referrerId # u]_vars

\* C21 witness: user 5 has registered with the code of user 4, whose chain is
\* 4, 3, 2, 1: it has the three records of users 4, 3, 2 and none of user 1,
\* who keeps the three referrals it had.
C21_Witness ==
    /\ users[5].exists /\ users[5].referredBy = 4
    /\ users[4].referredBy = 3 /\ users[3].referredBy = 2 /\ users[2].referredBy = 1
    /\ resp = Response("register", 201, "")
    /\ {r.referrerId : r \in RecordsOf(referrals, 5)} = {4, 3, 2}
    /\ users[1].totalReferrals = 3
    /\ users[1].pendingEarnings = LEVEL_1 + LEVEL_2 + LEVEL_3

\* The counters of an ancestor agree with the referral records: one referral
\* counted per record, and the PENDING amounts in pendingEarnings.
CountersMatch(U, R) ==
    \A u \in Users :
        U[u].exists =>
            /\ U[u].totalReferrals = Cardinality({r \in R : r.referrerId = u})
            /\ U[u].pendingEarnings =
                  LEVEL_1 * Cardinality({r \in R : r.referrerId = u /\ r.level = 1})
                + LEVEL_2 * Cardinality({r \in R : r.referrerId = u /\ r.level = 2})
                + LEVEL_3 * Cardinality({r \in R : r.referrerId = u /\ r.level = 3})

\* C22: a registration that answers anything but 201 leaves the users and the
\* referral records as they were: no new user, no record, no increment; and in
\* every state the records belong to existing users, a user registered with a
\* code has its level 1 record, and the counters of every user agree with the
\* records.
C22_RegistrationAllOrNothing ==
    [][/\ \A p \in DOMAIN inflight :
             (Ends(p, "register") /\ resp' # Response("register", 201, "")) =>
                 /\ users' = users
                 /\ referrals' = referrals
       /\ \A r \in referrals' : users'[r.referredId].exists /\ users'[r.referrerId].exists
       /\ \A d \in Users :
             (users'[d].exists /\ users'[d].referredBy # NullUser) =>
                 \E r \in RecordsOf(referrals', d) :
                     r.level = 1 /\ r.referrerId = users'[d].referredBy
       /\ CountersMatch(users', referrals')]_vars

\* C22 witness: with users 1, 2 (under 1) and 3 (under 2) registered, the
\* transaction of a further registration has failed in the database: user 4
\* does not exist and nothing of users 1, 2, 3 has moved.
C22_Witness ==
    /\ resp = Response("register", 500, "DATABASE")
    /\ users[2].referredBy = 1 /\ users[3].referredBy = 2
    /\ ~users[4].exists
    /\ inflight = EmptyBag
    /\ Cardinality(referrals) = 3
    /\ users[1].totalReferrals = 2 /\ users[1].pendingEarnings = LEVEL_1 + LEVEL_2
    /\ users[2].totalReferrals = 1 /\ users[2].pendingEarnings = LEVEL_1
    /\ users[3].totalReferrals = 0 /\ users[3].pendingEarnings = 0

\* The register handler p leaves its referral code lookup in this step.
LooksUp(p) ==
    /\ p \in DOMAIN inflight
    /\ p.op = "register" /\ p.pc = "find"
    /\ \/ inflight' = Take(inflight, p)
       \/ inflight' = Put(Take(inflight, p), [p EXCEPT !.pc = "tx"])

\* C23: a registration whose referral code is the code of no stored user is
\* answered 400 REFERRAL_CODE_NOT_FOUND at the lookup and ends there: no user,
\* no referral record, no increment; and every user stored with a referral
\* code was registered under an existing user.
C23_UnknownCodeRefused ==
    [][/\ \A p \in DOMAIN inflight :
             (LooksUp(p) /\ (p.todo \notin Users \/ ~users[p.todo].exists)) =>
                 /\ resp' = Response("register", 400, "REFERRAL_CODE_NOT_FOUND")
                 /\ inflight' = Take(inflight, p)
                 /\ users' = users
                 /\ referrals' = referrals
       /\ \A d \in Users :
             (~users[d].exists /\ users'[d].exists /\ users'[d].referredBy # NullUser) =>
                 users[users'[d].referredBy].exists]_vars

\* C23 witness: user 1 is registered and a registration with the code of a
\* user that does not exist has been refused: there is still one user.
C23_Witness ==
    /\ resp = Response("register", 400, "REFERRAL_CODE_NOT_FOUND")
    /\ users[1].exists /\ users[1].totalReferrals = 0 /\ users[1].pendingEarnings = 0
    /\ \A u \in Users \ {1} : ~users[u].exists
    /\ referrals = {}
    /\ inflight = EmptyBag

\* Two stored rows have the same contact identity: the same phone number or
\* the same email address once both are formatted.
SameContact(a, b) ==
    \/ formatPhoneNumber(a.phoneNumber) = formatPhoneNumber(b.phoneNumber)
    \/ formatEmail(a.email) = formatEmail(b.email)

\* C24: no user is registered under the code of a user with the same phone
\* number or the same email address.
C24_NoSelfReferral ==
    \A d \in Users :
        (users[d].exists /\ users[d].referredBy # NullUser /\ users[users[d].referredBy].exists) =>
            ~SameContact(users[d], users[users[d].referredBy])

(***************************************************************************)
(* Properties of the activation attempts                                   *)
(***************************************************************************)
\* Handler p takes a step: one copy of it leaves its place in the bag.
Moves(p) ==
    /\ p \in DOMAIN inflight
    /\ CopiesIn(p, inflight') < CopiesIn(p, inflight)

\* C25: a step of an activation request that leaves its user UNVERIFIED (the
\* attempt has not been confirmed) creates no journal entry and changes no
\* row of the users: the journal and the users are as before, however many
\* attempts there are.
C25_InitiationWritesNothing ==
    [][\A p \in DOMAIN inflight :
          (Moves(p) /\ p.op = "activate" /\ users'[p.user].accountStatus = "UNVERIFIED") =>
              /\ journal' = journal
              /\ users' = users]_vars

(***************************************************************************)
(* Properties of the payment webhooks                                      *)
(***************************************************************************)
\* Result codes of a payment that did not succeed (1032: cancelled by the
\* payer, 1037: the payer could not be reached).
FailureCodes == {1032, 1037}

EntriesOf(J, w) == {e \in DOMAIN J : e.type = "WITHDRAW_TO_MPESA" /\ e.wr = w}

\* C28: the journal row of a withdrawal request keeps its owner, type and
\* amount, and its status only goes from PENDING to CONFIRMED, FAILED or
\* CANCELLED: a row that is CONFIRMED, FAILED or CANCELLED keeps its status.
C28_JournalStatusOneWay ==
    [][\A w \in WithdrawalIds :
          \A e \in EntriesOf(journal, w) :
              /\ \E f \in EntriesOf(journal', w) :
                    f.userId = e.userId /\ f.amount = e.amount
              /\ e.status # "PENDING" =>
                    \A f \in EntriesOf(journal', w) : f.status = e.status]_vars

(***************************************************************************)
(* Properties of the atomicity of the activation                           *)
(***************************************************************************)
\* C29: in every state, no referral record whose referred user is ACTIVE is
\* still PENDING: the status and the release of the bonuses change together.
C29_ActiveHasNoPendingRecord ==
    \A r \in referrals :
        users[r.referredId].accountStatus = "ACTIVE" => r.earningsStatus # "PENDING"

\* C30: when the release of one referral bonus fails during the only
\* activation attempt of a user, the confirmation is undone as a whole: the
\* user is not ACTIVE, it has no activation journal entry, and each of its
\* referral records is PENDING with no bonus row.
C30_FailedReleaseAbortsActivation ==
    [][\A p \in DOMAIN inflight :
          (/\ Ends(p, "activate") /\ p.pc = "release"
           /\ resp' = Response("activate", 500, "DATABASE")
           /\ BagCardinality(inflight) = 1
           /\ ActivationAttempts(journal, p.user) = 1) =>
              /\ users'[p.user].accountStatus # "ACTIVE"
              /\ ActivationAttempts(journal', p.user) = 0
              /\ \A r \in RecordsOf(referrals', p.user) :
                    r.earningsStatus = "PENDING" /\ BonusEntries(journal', r) = 0]_vars

(***************************************************************************)
(* Deletion of a user by an admin (adminController.deleteUser)             *)
(***************************************************************************)
\* The row that stands for a withdrawal request removed with its user.
DeletedWithdrawal == [userId |-> NullUser, amount |-> 0, status |-> "DELETED"]

\* prisma.user.delete: the row goes, and with it (onDelete: Cascade) the
\* journal entries, the withdrawal requests, the task rows of the user and
\* the referral records in which the user is the referrer or the referred;
\* referredBy of the users registered under its code becomes null.  No other
\* column of another user changes.
DeleteCommit(db, u) ==
    [users |-> [v \in Users |->
                  IF v = u THEN DeletedUser
                  ELSE IF db.users[v].referredBy = u
                  THEN [db.users[v] EXCEPT !.referredBy = NullUser]
                  ELSE db.users[v]],
     referrals |-> {r \in db.referrals : r.referrerId # u /\ r.referredId # u},
     journal |-> [e \in {e \in DOMAIN db.journal : e.userId # u} |-> db.journal[e]],
     withdrawals |-> [i \in DOMAIN db.withdrawals |->
                        IF db.withdrawals[i].userId = u THEN DeletedWithdrawal
                        ELSE db.withdrawals[i]],
     tasks |-> [db.tasks EXCEPT ![u] = NoTasks[u]]]

\* deleteUser: user.findUnique by id.
DeleteFind(u) ==
    /\ CanStart
    /\ UNCHANGED <<users, referrals, journal, withdrawals, tasks, mpesa>>
    /\ IF ~users[u].exists THEN Reject(Response("delete", 404, "USER_NOT_FOUND"))
       ELSE Start(Proc("delete", "entries", u, 0, 0, "", {}))

\* deleteUser: transaction.findFirst for a CONFIRMED entry of the user.
DeleteEntries(p) ==
    /\ p.op = "delete" /\ p.pc = "entries"
    /\ UNCHANGED <<users, referrals, journal, withdrawals, tasks, mpesa>>
    /\ Continue(p, [p EXCEPT !.pc = "withdrawals",
                             !.status = IF \E e \in DOMAIN journal :
                                              e.userId = p.user /\ e.status = "CONFIRMED"
                                        THEN "ACTIVE" ELSE ""])

\* deleteUser: withdrawalRequest.findFirst for a PENDING or PROCESSING request
\* of the user, and the refusal when either query found a row.
DeleteWithdrawals(p) ==
    /\ p.op = "delete" /\ p.pc = "withdrawals"
    /\ UNCHANGED <<users, referrals, journal, withdrawals, tasks, mpesa>>
    /\ IF \/ p.status = "ACTIVE"
          \/ \E i \in DOMAIN withdrawals :
                /\ withdrawals[i].userId = p.user
                /\ withdrawals[i].status \in {"PENDING", "PROCESSING"}
       THEN Finish(p, Response("delete", 400, "ACTIVE_TRANSACTIONS"))
       ELSE Continue(p, [p EXCEPT !.pc = "tx"])

\* deleteUser: user.delete and the response; the record to delete is gone
\* when another request deleted the user meanwhile.
DeleteRow(p) ==
    /\ p.op = "delete" /\ p.pc = "tx"
    /\ UNCHANGED mpesa
    /\ IF ~users[p.user].exists
       THEN /\ UNCHANGED <<users, referrals, journal, withdrawals, tasks>>
            /\ Finish(p, Response("delete", 404, "RECORD_NOT_FOUND"))
       ELSE LET db == DeleteCommit([users |-> users, referrals |-> referrals,
                                    journal |-> journal, withdrawals |-> withdrawals,
                                    tasks |-> tasks], p.user)
            IN /\ users' = db.users
               /\ referrals' = db.referrals
               /\ journal' = db.journal
               /\ withdrawals' = db.withdrawals
               /\ tasks' = db.tasks
               /\ Finish(p, Response("delete", 200, ""))

(***************************************************************************)
(* Specification of registration with deletion: users 1 to 4 are           *)
(* registered in a chain, a fifth user registers and an admin deletes      *)
(* users.                                                                  *)
(***************************************************************************)
InitD == InitA

NextD ==
    \/ \E code \in Users \cup {NullUser} :
          RegisterBegin(Phone(NextContact, "254"), Email(NextContact, "lower"), code)
    \/ \E p \in DOMAIN inflight : RegisterFind(p)
    \/ \E p \in DOMAIN inflight : RegisterTx(p, MaxWrites)
    \/ \E u \in Users : DeleteFind(u)
    \/ \E p \in DOMAIN inflight : DeleteEntries(p)
    \/ \E p \in DOMAIN inflight : DeleteWithdrawals(p)
    \/ \E p \in DOMAIN inflight : DeleteRow(p)

SpecD == InitD /\ [][NextD]_vars

(***************************************************************************)
(* Frame of the balance columns                                            *)
(***************************************************************************)
\* C31: the balance columns (pendingEarnings, availableBalance, totalEarned,
\* totalWithdrawn) change only inside activation and withdrawal operations:
\* a step of any other operation, here of watchVideo and of claimWeeklyReward,
\* leaves the four columns of every user as they were.
C31_OnlyActivationAndWithdrawalMoveBalances ==
    [][\A p \in DOMAIN inflight :
          (Moves(p) /\ p.op \notin {"activate", "confirm", "request", "cancel",
                                    "retry", "resolve"}) =>
              \A u \in Users : Balances(users'[u]) = Balances(users[u])]_vars

(***************************************************************************)
(* Journal entries and balance mutations                                   *)
(***************************************************************************)
\* The entries of user u that journal K holds in more copies than journal J:
\* the entries created, or advanced to another status, between J and K.
WrittenEntries(J, K, u) ==
    {e \in DOMAIN K : e.userId = u /\ CopiesIn(e, K) > CopiesIn(e, J)}

\* C32: journal entries go together with balance mutations, in one atomic
\* step: a step that adds an entry to the journal changes a balance column of
\* the owner of the entry, and a step that changes a balance column of a user
\* creates or advances a journal entry of that user.
C32_EntriesGoWithBalanceMutations ==
    [][\A u \in Users :
          /\ (BagCardinality(journal') > BagCardinality(journal)
                /\ WrittenEntries(journal, journal', u) # {}) =>
                 Balances(users'[u]) # Balances(users[u])
          /\ Balances(users'[u]) # Balances(users[u]) =>
                 WrittenEntries(journal, journal', u) # {}]_vars

(***************************************************************************)
(* pendingEarnings and the referral records                                *)
(***************************************************************************)
\* The sum of earningsAmount over the referral records of set S.
RECURSIVE SumEarnings(_)
SumEarnings(S) ==
    IF S = {} THEN 0
    ELSE LET r == CHOOSE r \in S : TRUE
         IN r.earningsAmount + SumEarnings(S \ {r})

\* The PENDING records of R in which user u is the referrer.
PendingAsReferrer(R, u) ==
    {r \in R : r.referrerId = u /\ r.earningsStatus = "PENDING"}

\* C33: in every state the pendingEarnings of each user equals the sum of
\* earningsAmount over the PENDING referral records in which the user is the
\* referrer, across registration, activation and the deletion of a referred
\* user by an admin.
C33_PendingEarningsMatchRecords ==
    \A u \in Users :
        users[u].exists =>
            users[u].pendingEarnings = SumEarnings(PendingAsReferrer(referrals, u))

(***************************************************************************)
(* Conservation of the earnings                                            *)
(***************************************************************************)
\* C34: in every state, for each user, availableBalance plus the amounts of
\* the user's PENDING and PROCESSING withdrawal requests plus totalWithdrawn
\* equals totalEarned.
C34_EarningsConserved ==
    \A u \in Users :
        users[u].exists =>
            Held(users, withdrawals, u) + users[u].totalWithdrawn = users[u].totalEarned

(***************************************************************************)
(* totalWithdrawn and the completed requests                               *)
(***************************************************************************)
\* The sum of the amounts of the COMPLETED requests of user u among the first
\* i rows of W.
RECURSIVE SumCompleted(_, _, _)
SumCompleted(W, u, i) ==
    IF i = 0 THEN 0
    ELSE (IF W[i].userId = u /\ W[i].status = "COMPLETED" THEN W[i].amount ELSE 0)
         + SumCompleted(W, u, i - 1)

\* C35: in every state the totalWithdrawn of each user equals the sum of the
\* amounts of the user's withdrawal requests in status COMPLETED, also when
\* one request is resolved by concurrent admin requests.
C35_TotalWithdrawnMatchesCompleted ==
    \A u \in Users :
        users[u].exists =>
            users[u].totalWithdrawn = SumCompleted(withdrawals, u, Len(withdrawals))

(***************************************************************************)
(* The journal entry of a withdrawal request                               *)
(***************************************************************************)
\* The status of the journal entry that mirrors a status of the request.
MirrorStatuses(status) ==
    IF status = "PENDING" THEN {"PENDING"}
    ELSE IF status = "COMPLETED" THEN {"CONFIRMED"}
    ELSE IF status = "REJECTED" THEN {"FAILED", "CANCELLED"}
    ELSE {}

\* C36: every withdrawal request has exactly one correlated WITHDRAW_TO_MPESA
\* journal entry (the owner and the amount of the request, carrying its id),
\* there from the step that created the request, and the status of the entry
\* mirrors that of the request: PENDING with PENDING, CONFIRMED with
\* COMPLETED, FAILED or CANCELLED with REJECTED.
C36_OneMirroringEntryPerRequest ==
    \A w \in DOMAIN withdrawals :
        /\ SumCopies(journal, EntriesOf(journal, w)) = 1
        /\ \A e \in EntriesOf(journal, w) :
              /\ e.userId = withdrawals[w].userId
              /\ e.amount = withdrawals[w].amount
              /\ e.status \in MirrorStatuses(withdrawals[w].status)

\* An admin resolution has just answered 200 with one request COMPLETED and
\* another REJECTED: entries have been created and advanced both ways.
C36_Witness ==
    /\ resp = Response("resolve", 200, "")
    /\ \E w \in DOMAIN withdrawals :
          /\ withdrawals[w].status = "COMPLETED"
          /\ \E v \in DOMAIN withdrawals : withdrawals[v].status = "REJECTED"

(***************************************************************************)
(* Requests of another user                                                *)
(***************************************************************************)
\* C37: a cancel or a retry issued by a user on a withdrawal request owned by
\* a different user goes no further than its lookup: the step answers 404
\* not found, the handler ends, and the requests, the users (hence the
\* balances of both users) and the journal are unchanged.
C37_ForeignRequestNotFound ==
    [][\A p \in DOMAIN inflight :
          (/\ Moves(p) /\ p.op \in {"cancel", "retry"}
           /\ p.wd \in DOMAIN withdrawals /\ ~Owns(p.user, p.wd)) =>
              /\ p.pc = "find"
              /\ resp' = Response(p.op, 404, "NOT_FOUND")
              /\ BagCardinality(inflight') < BagCardinality(inflight)
              /\ UNCHANGED <<users, journal, withdrawals>>]_vars

\* A retry was answered 404 although every request id exists: all requests
\* belong to user 1, so the retry was issued by the other user.
C37_Witness ==
    /\ resp = Response("retry", 404, "NOT_FOUND")
    /\ Len(withdrawals) = MaxWithdrawals
    /\ \A w \in DOMAIN withdrawals : withdrawals[w].userId = 1

(***************************************************************************)
(* Uniqueness of the referral records                                      *)
(***************************************************************************)
\* The (referrer, referred) pairs of the records of R.
Pairs(R) == {<<r.referrerId, r.referredId>> : r \in R}

\* C38: the ancestors resolved by a registration are pairwise distinct and
\* none is the new user (every user was registered after its referrer, so the
\* referrer graph has no cycle); no record of the new user exists before, so
\* the records of one registration never collide on the unique (referrer,
\* referred) pair: a registration that answers 201 adds one record per
\* ancestor, and in every state no two records share a pair.
C38_RecordsNeverCollide ==
    [][/\ \A u \in Users :
             (users'[u].exists /\ users'[u].referredBy # NullUser) => users'[u].referredBy < u
       /\ Cardinality(Pairs(referrals')) = Cardinality(referrals')
       /\ \A p \in DOMAIN inflight :
             (Commits(p, "register") /\ p.todo # NullUser /\ users[p.todo].exists) =>
                 LET anc == Ancestors(users, p.todo)
                     new == FreeId(users)
                 IN /\ \A i, j \in DOMAIN anc : anc[i] = anc[j] => i = j
                    /\ \A i \in DOMAIN anc : anc[i] # new /\ users[anc[i]].exists
                    /\ \A r \in referrals : r.referredId # new /\ r.referrerId # new
                    /\ resp' = Response("register", 201, "") =>
                          Cardinality(referrals') = Cardinality(referrals) + Len(anc)]_vars

\* User 4 has registered under the chain 3, 2, 1: it has three records, and
\* the six records of the chain have six distinct pairs.
C38_Witness ==
    /\ resp = Response("register", 201, "")
    /\ users[4].exists /\ users[4].referredBy = 3
    /\ Cardinality(RecordsOf(referrals, 4)) = 3
    /\ Cardinality(referrals) = 6
    /\ Cardinality(Pairs(referrals)) = 6

====
